---- MODULE Spec2Model ----
(***************************************************************************)
(* Bank statement converter (converter/server): the balance reconciler of  *)
(* aiProcessor.js, its key normalizer and LLM extractor, the POST           *)
(* /api/upload, POST /api/confirm-accuracy and GET /api/download handlers  *)
(* of server.js, and compareResults.                                       *)
(*                                                                         *)
(* Money is counted in thousandths of the currency unit, so the tolerance  *)
(* 0.10 is 100 and the additions, subtractions and comparisons of the      *)
(* reconciler are exact.  A JS number field is <<n>>, a field that is no   *)
(* number (null, undefined, NaN) is <<>>.  A string field is a string, a   *)
(* field that is no string is NULL.  A flag that is absent reads as FALSE, *)
(* the way every consumer reads it (tx.flag || false).                     *)
(***************************************************************************)
EXTENDS Integers, Sequences, FiniteSets, TLC

VARIABLES
    transactions,           \* validateTransactionBalances: the argument of the last call
    processedTransactions,  \* validateTransactionBalances: the value it returned
    runs,                   \* how many times the reconciler ran on this list
    pc,                     \* POST /api/upload: where the handler stands
    pagesTextArray,         \* the page texts getTextPerPage returned
    identifiedBank,         \* the bank identifyBankWithAI answered, or NULL
    pageIndex,              \* the page loop's i, 1-based
    allTransactions,        \* the rows collected so far
    extractionMethod,       \* 'ai', 'partial_ai_fallback_needed' or 'pattern_fallback'
    runId,                  \* <<id>> of the stored run, <<>> for null
    ProcessingResults,      \* the table: one record per stored run
    csvExports,             \* the CSV files written
    response,               \* the HTTP response sent, NoResponse before
    uploadDeleted,          \* fs.unlink was called on the uploaded file
    aiCalls,                \* the pages extractTransactionsWithAI was called with
    aiResults,              \* page -> what extractTransactionsWithAI answered
    patternResult,          \* what extractTransactionsWithPatterns returned
    extractCall,            \* extractTransactionsWithAI: the inputs of the last call
    extractResult,          \* extractTransactionsWithAI: what the call answered
    rawTransactions,        \* normalizeTransactionData: the argument
    normalizedTransactions, \* normalizeTransactionData: the value it returned
    normalizerPc,           \* "input" before normalizeTransactionData ran, "output" after
    confirmRequest,         \* POST /api/confirm-accuracy: the requests received
    confirmResponse,        \* POST /api/confirm-accuracy: the response to each
    FeedbackSubmissions,    \* the table: one record per stored feedback
    initialData,            \* compareResults: the first argument
    correctedData,          \* compareResults: the second argument
    analysis,               \* compareResults: the value it returned
    exportsDir,             \* the readable files of csvExportsDir, by relative path
    downloadId,             \* GET /api/download/:downloadId: the parameter
    downloadResponse,       \* GET /api/download/:downloadId: the response
    fsAccessed              \* the paths the download handler gave to fs

reconcilerVars == <<transactions, processedTransactions, runs>>

uploadVars ==
    <<pc, pagesTextArray, identifiedBank, pageIndex, allTransactions,
      extractionMethod, runId, ProcessingResults, csvExports, response,
      uploadDeleted, aiCalls, aiResults, patternResult>>

normalizerVars ==
    <<extractCall, extractResult, rawTransactions, normalizedTransactions, normalizerPc>>

serviceVars ==
    <<confirmRequest, confirmResponse, FeedbackSubmissions, initialData,
      correctedData, analysis, exportsDir, downloadId, downloadResponse, fsAccessed>>

vars == <<reconcilerVars, uploadVars, normalizerVars, serviceVars>>

\* ------------------------------------------------------------------ bounds

MaxRows == 3
MaxPages == 3

\* ------------------------------------------------------------------ values

NULL == "<null>"
NaN == <<>>

BALANCE_TOLERANCE == 100

Abs(x) == IF x < 0 THEN -x ELSE x

\* Descriptions of the model and their upper-case forms (String.toUpperCase).
toUpperCase(s) ==
    CASE s = "Opening Balance b/f" -> "OPENING BALANCE B/F"
      [] s = "Salary"              -> "SALARY"
      [] OTHER                     -> s

\* The upper-case strings that include the text 'OPENING BALANCE'.
IncludesOpeningBalance == {"OPENING BALANCE", "OPENING BALANCE B/F"}

isLikelyOpeningBalance(description) ==
    /\ description # NULL
    /\ description # ""
    /\ toUpperCase(description) \in IncludesOpeningBalance

isValidTransaction(tx) ==
    LET hasDate == tx.date # NULL /\ tx.date # ""
        hasDescription == tx.description # NULL
        hasAmount == tx.amount # NaN
        hasType == tx.type = "credit" \/ tx.type = "debit"
        hasRunningBalance == tx.running_balance # NaN
        isValidCore == hasDate /\ hasDescription /\ hasRunningBalance
        hasValidAmountTypeOrIsOpening ==
            \/ hasAmount /\ hasType
            \/ /\ isLikelyOpeningBalance(tx.description)
               /\ tx.type = NULL
               /\ tx.amount = <<0>>
    IN isValidCore /\ hasValidAmountTypeOrIsOpening

\* Array.findIndex(isValidTransaction), 1-based; 0 where JS answers -1.
firstValidIndex(txs) ==
    IF \E i \in 1..Len(txs) : isValidTransaction(txs[i])
    THEN CHOOSE i \in 1..Len(txs) :
            /\ isValidTransaction(txs[i])
            /\ \A j \in 1..(i - 1) : ~isValidTransaction(txs[j])
    ELSE 0

\* A reconciler that takes the row just before as reference, valid or not.
prevProcessedIndexAny(processed) == Len(processed)

\* processedTransactions.slice().reverse().find(isValidTransaction), as the
\* index of that row in processed; 0 where JS answers undefined.
prevProcessedValidIndex(processed) ==
    IF \E p \in 1..Len(processed) : isValidTransaction(processed[p])
    THEN CHOOSE p \in 1..Len(processed) :
            /\ isValidTransaction(processed[p])
            /\ \A q \in (p + 1)..Len(processed) : ~isValidTransaction(processed[q])
    ELSE 0

flippedTypeOf(type) == IF type = "credit" THEN "debit" ELSE "credit"

\* A reconciler that adds the amount whatever the type.
expectedBalanceIgnoringType(type, prevBalance, amount) == prevBalance + amount

expectedBalanceFor(type, prevBalance, amount) ==
    IF type = "credit" THEN prevBalance + amount ELSE prevBalance - amount

\* A reconciler that rejects a difference equal to the tolerance.
withinToleranceStrict(difference) == difference < BALANCE_TOLERANCE

withinTolerance(difference) == difference <= BALANCE_TOLERANCE

\* The row that precedes the first valid row, or is it (lines 228-239).
leadingRow(tx) ==
    [tx EXCEPT !.balanceMismatch = FALSE,
               !.invalidStructure = ~isValidTransaction(tx)]

\* The row of the no-valid-row exit (line 220).
noValidRow(tx) ==
    [tx EXCEPT !.balanceMismatch = TRUE,
               !.invalidStructure = ~isValidTransaction(tx)]

\* Lines 279-281: the row is not arithmetic-checked.
skipsArithmetic(prevBalance, currentBalance, amount, type) ==
    \/ prevBalance = NaN
    \/ currentBalance = NaN
    \/ amount = NaN
    \/ (type # "credit" /\ type # "debit")

\* A reconciler that knows the opening balance row by its exact description.
isOpeningBalanceCaseExact(amount, type, description) ==
    amount = <<0>> /\ type = NULL /\ description = "OPENING BALANCE"

\* Line 281: the opening balance case among the rows not checked.
isOpeningBalanceCase(amount, type, description) ==
    amount = <<0>> /\ type = NULL /\ isLikelyOpeningBalance(description)

\* A reconciler that tries the opposite type first.
checkBalanceFlipFirst(tx, prevBalance, currentBalance, amount, type) ==
    LET flippedType == flippedTypeOf(type)
        difference == Abs(currentBalance - expectedBalanceFor(type, prevBalance, amount))
        differenceIfFlipped ==
            Abs(currentBalance - expectedBalanceFor(flippedType, prevBalance, amount))
    IN IF withinTolerance(differenceIfFlipped)
       THEN [tx EXCEPT !.balanceMismatch = FALSE,
                       !.typeCorrected = TRUE,
                       !.type = flippedType]
       ELSE IF withinTolerance(difference)
            THEN [tx EXCEPT !.balanceMismatch = FALSE, !.typeCorrected = FALSE]
            ELSE [tx EXCEPT !.balanceMismatch = TRUE, !.typeCorrected = FALSE]

\* A reconciler that repairs the type without recording it.
checkBalanceSilentFlip(tx, prevBalance, currentBalance, amount, type) ==
    LET flippedType == flippedTypeOf(type)
        difference == Abs(currentBalance - expectedBalanceFor(type, prevBalance, amount))
        differenceIfFlipped ==
            Abs(currentBalance - expectedBalanceFor(flippedType, prevBalance, amount))
    IN IF withinTolerance(difference)
       THEN [tx EXCEPT !.balanceMismatch = FALSE, !.typeCorrected = FALSE]
       ELSE IF withinTolerance(differenceIfFlipped)
            THEN [tx EXCEPT !.balanceMismatch = FALSE,
                            !.typeCorrected = FALSE,
                            !.type = flippedType]
            ELSE [tx EXCEPT !.balanceMismatch = TRUE, !.typeCorrected = FALSE]

\* The arithmetic check of one row (lines 295-325).
checkBalance(tx, prevBalance, currentBalance, amount, type) ==
    LET expectedBalance == expectedBalanceFor(type, prevBalance, amount)
        difference == Abs(currentBalance - expectedBalance)
        flippedType == flippedTypeOf(type)
        expectedBalanceIfTypeFlipped ==
            expectedBalanceFor(flippedType, prevBalance, amount)
        differenceIfFlipped == Abs(currentBalance - expectedBalanceIfTypeFlipped)
    IN IF withinTolerance(difference)
       THEN [tx EXCEPT !.balanceMismatch = FALSE, !.typeCorrected = FALSE]
       ELSE IF withinTolerance(differenceIfFlipped)
            THEN [tx EXCEPT !.balanceMismatch = FALSE,
                            !.typeCorrected = TRUE,
                            !.type = flippedType]
            ELSE [tx EXCEPT !.balanceMismatch = TRUE, !.typeCorrected = FALSE]

\* One iteration of the validation loop (lines 243-325): the row pushed for
\* currentTx, given the rows processed so far.
processRow(currentTx, processed) ==
    LET currentTxProcessed ==
            [currentTx EXCEPT !.balanceMismatch = FALSE, !.invalidStructure = FALSE]
        p == prevProcessedValidIndex(processed)
    IN IF ~isValidTransaction(currentTx)
       THEN [currentTxProcessed EXCEPT !.invalidStructure = TRUE,
                                       !.balanceMismatch = TRUE]
       ELSE IF p = 0
       THEN [currentTxProcessed EXCEPT !.balanceMismatch = TRUE]
       ELSE LET prevBalance == processed[p].running_balance
                currentBalance == currentTxProcessed.running_balance
                amount == currentTxProcessed.amount
                type == currentTxProcessed.type
            IN IF skipsArithmetic(prevBalance, currentBalance, amount, type)
               THEN IF ~isOpeningBalanceCase(amount, type,
                                             currentTxProcessed.description)
                    THEN [currentTxProcessed EXCEPT !.balanceMismatch = TRUE]
                    ELSE currentTxProcessed
               ELSE checkBalance(currentTxProcessed, prevBalance[1],
                                 currentBalance[1], amount[1], type)

RECURSIVE validationLoop(_, _, _)
validationLoop(txs, processed, i) ==
    IF i > Len(txs)
    THEN processed
    ELSE validationLoop(txs, Append(processed, processRow(txs[i], processed)), i + 1)

validateTransactionBalances(txs) ==
    LET first == firstValidIndex(txs)
    IN IF Len(txs) = 0
       THEN <<>>
       ELSE IF first = 0
       THEN [i \in 1..Len(txs) |-> noValidRow(txs[i])]
       ELSE validationLoop(txs, [i \in 1..first |-> leadingRow(txs[i])], first + 1)

\* --------------------------------------------- raw rows and normalization

\* A raw row is a JS object as the LLM wrote it: a function from its keys to
\* tagged values.  A number counts thousandths, like the canonical fields.
Str(s) == [str |-> s]
Num(n) == [num |-> n]
Bool(b) == [bool |-> b]
Null == [null |-> TRUE]
Undefined == [undefined |-> TRUE]

IsString(v) == DOMAIN v = {"str"}
IsNumber(v) == DOMAIN v = {"num"}
IsNullish(v) == v = Null \/ v = Undefined

\* tx[key], undefined for a key the object does not have.
Get(tx, key) == IF key \in DOMAIN tx THEN tx[key] ELSE Undefined

\* JS truthiness.
Truthy(v) ==
    \/ IsString(v) /\ v.str # ""
    \/ IsNumber(v) /\ v.num # 0
    \/ v = Bool(TRUE)

\* a || b
OrElse(a, b) == IF Truthy(a) THEN a ELSE b

\* a ?? b
Coalesce(a, b) == IF IsNullish(a) THEN b ELSE a

\* s.replace(/,/g, '') on the numeric texts of the model.
removeCommas(s) ==
    CASE s = "1,100.00" -> "1100.00"
      [] s = "1,000.00" -> "1000.00"
      [] OTHER          -> s

\* parseFloat(s) on comma-free text, in thousandths; NaN for text that does
\* not start with a number.
parseFloatText(s) ==
    CASE s = "1100.00" -> <<1100000>>
      [] s = "1000.00" -> <<1000000>>
      [] s = "100.00"  -> <<100000>>
      [] s = "1,100.00" -> <<1000>>
      [] s = "1,000.00" -> <<1000>>
      [] s = "0"       -> <<0>>
      [] OTHER         -> NaN

\* parseFloat(String(v).replace(/,/g, '')): a number prints and parses back to
\* itself, null, undefined and booleans print as words.
parseAmount(v) ==
    IF IsNumber(v) THEN <<v.num>>
    ELSE IF IsString(v) THEN parseFloatText(removeCommas(v.str))
    ELSE NaN

\* description.replace(/\n/g, ' ').trim() on the descriptions of the model.
cleanDescription(s) ==
    CASE s = "Salary\nApril" -> "Salary April"
      [] s = " Salary "      -> "Salary"
      [] OTHER               -> s

IsNonEmptyString(v) == IsString(v) /\ v.str # ""

\* Lines 93-102.
resolveDate(tx) ==
    IF IsNonEmptyString(Get(tx, "date")) THEN Get(tx, "date").str
    ELSE IF IsNonEmptyString(Get(tx, "Transaction Date"))
         THEN Get(tx, "Transaction Date").str
    ELSE IF IsNonEmptyString(Get(tx, "Value Date")) THEN Get(tx, "Value Date").str
    ELSE IF IsNonEmptyString(Get(tx, "Date")) THEN Get(tx, "Date").str
    ELSE NULL

\* Lines 105-119.
resolveDescription(tx) ==
    LET found ==
            IF IsString(Get(tx, "description")) THEN Get(tx, "description").str
            ELSE IF IsString(Get(tx, "Transaction Remarks"))
                 THEN Get(tx, "Transaction Remarks").str
            ELSE IF IsString(Get(tx, "Narration")) THEN Get(tx, "Narration").str
            ELSE IF IsString(Get(tx, "Transaction details"))
                 THEN Get(tx, "Transaction details").str
            ELSE ""
    IN IF found # "" THEN cleanDescription(found) ELSE found

\* A normalizer that looks at the credit candidate before the debit candidate.
resolveAmountAndTypeCreditFirst(tx, description) ==
    LET amount == Get(tx, "amount")
        type == Get(tx, "type")
        debit == parseAmount(OrElse(Get(tx, "Debit"),
                                    OrElse(Get(tx, "Withdrawal (Dr)"), Str(""))))
        credit == parseAmount(OrElse(Get(tx, "Credit"),
                                     OrElse(Get(tx, "Deposit(Cr)"), Str(""))))
    IN IF IsNumber(amount) /\ (type = Str("credit") \/ type = Str("debit"))
       THEN <<(<<Abs(amount.num)>>), type.str>>
       ELSE IF credit # NaN /\ credit[1] > 0 THEN <<credit, "credit">>
       ELSE IF debit # NaN /\ debit[1] > 0 THEN <<debit, "debit">>
       ELSE IF isLikelyOpeningBalance(description) THEN <<(<<0>>), NULL>>
       ELSE <<NaN, NULL>>

\* Lines 121-147: <<amount, type>>.
resolveAmountAndType(tx, description) ==
    LET amount == Get(tx, "amount")
        type == Get(tx, "type")
        debit == parseAmount(OrElse(Get(tx, "Debit"),
                                    OrElse(Get(tx, "Withdrawal (Dr)"), Str(""))))
        credit == parseAmount(OrElse(Get(tx, "Credit"),
                                     OrElse(Get(tx, "Deposit(Cr)"), Str(""))))
    IN IF IsNumber(amount) /\ (type = Str("credit") \/ type = Str("debit"))
       THEN <<(<<Abs(amount.num)>>), type.str>>
       ELSE IF debit # NaN /\ debit[1] > 0 THEN <<debit, "debit">>
       ELSE IF credit # NaN /\ credit[1] > 0 THEN <<credit, "credit">>
       ELSE IF isLikelyOpeningBalance(description) THEN <<(<<0>>), NULL>>
       ELSE <<NaN, NULL>>

\* Lines 149-155.
resolveRunningBalance(tx) ==
    parseAmount(Coalesce(Get(tx, "running_balance"),
                         Coalesce(Get(tx, "Balance"), Str(""))))

\* The normalizedTx built for one raw row (lines 81-155).
normalizeRow(tx) ==
    LET description == resolveDescription(tx)
        amountAndType == resolveAmountAndType(tx, description)
    IN [date |-> resolveDate(tx),
        description |-> description,
        amount |-> amountAndType[1],
        type |-> amountAndType[2],
        running_balance |-> resolveRunningBalance(tx),
        balanceMismatch |-> Truthy(Get(tx, "balanceMismatch")),
        typeCorrected |-> Truthy(Get(tx, "typeCorrected")),
        invalidStructure |-> Truthy(Get(tx, "invalidStructure"))]

\* A normalizer that admits a row without a running balance.
isAdmittedWithoutBalance(normalizedTx) ==
    /\ normalizedTx.date # NULL
    /\ (normalizedTx.amount # NaN \/ isLikelyOpeningBalance(normalizedTx.description))

\* A normalizer that admits a row without a date.
isAdmittedWithoutDate(normalizedTx) ==
    /\ normalizedTx.description # NULL
    /\ normalizedTx.running_balance # NaN
    /\ (normalizedTx.amount # NaN \/ isLikelyOpeningBalance(normalizedTx.description))

\* Lines 159-165: the normalized row is pushed.
isAdmitted(normalizedTx) ==
    /\ normalizedTx.date # NULL
    /\ normalizedTx.description # NULL
    /\ normalizedTx.running_balance # NaN
    /\ (normalizedTx.amount # NaN \/ isLikelyOpeningBalance(normalizedTx.description))
    /\ ~(normalizedTx.amount = NaN /\ ~isLikelyOpeningBalance(normalizedTx.description))

normalizeTransactionData(rawTxs) ==
    SelectSeq([k \in 1..Len(rawTxs) |-> normalizeRow(rawTxs[k])], isAdmitted)

\* A row of a response, a stored run or a CSV read by its canonical keys, the
\* way the client and the CSV writer read it.
AsCanonicalRow(tx) ==
    [date |-> IF IsString(Get(tx, "date")) THEN Get(tx, "date").str ELSE NULL,
     description |-> IF IsString(Get(tx, "description"))
                     THEN Get(tx, "description").str ELSE NULL,
     amount |-> IF IsNumber(Get(tx, "amount")) THEN <<Get(tx, "amount").num>> ELSE NaN,
     type |-> IF IsString(Get(tx, "type")) THEN Get(tx, "type").str ELSE NULL,
     running_balance |-> IF IsNumber(Get(tx, "running_balance"))
                         THEN <<Get(tx, "running_balance").num>> ELSE NaN,
     balanceMismatch |-> Truthy(Get(tx, "balanceMismatch")),
     typeCorrected |-> Truthy(Get(tx, "typeCorrected")),
     invalidStructure |-> Truthy(Get(tx, "invalidStructure"))]

\* ------------------------------------------------- the reconciler's inputs

Row(date, description, amount, type, running_balance, tc, bm, inv) ==
    [date |-> date, description |-> description, amount |-> amount,
     type |-> type, running_balance |-> running_balance,
     typeCorrected |-> tc, balanceMismatch |-> bm, invalidStructure |-> inv]

\* Rows of the normalized schema with an amount and a type.
RegularRows ==
    { Row("02/04/2024", "Salary", <<a>>, t, <<b>>, FALSE, FALSE, FALSE) :
        a \in {0, 100}, t \in {"credit", "debit"}, b \in {1000, 1100, 1101} }

\* Opening balance rows: amount 0, type null.
OpeningRows ==
    { Row("01/04/2024", "OPENING BALANCE", <<0>>, NULL, <<b>>, FALSE, FALSE, FALSE) :
        b \in {1000, 1101} }
    \cup { Row("01/04/2024", "Opening Balance b/f", <<0>>, NULL, <<1100>>,
               FALSE, FALSE, FALSE) }

\* Rows that fail isValidTransaction: no date, no running balance, an
\* opening balance description with an amount.
BrokenRows ==
    { Row(NULL, "Salary", <<100>>, "credit", <<1100>>, FALSE, FALSE, FALSE),
      Row("03/04/2024", "Salary", <<100>>, "credit", NaN, FALSE, FALSE, FALSE),
      Row("03/04/2024", "OPENING BALANCE", <<100>>, NULL, <<1000>>, FALSE, FALSE, FALSE) }

\* Rows that arrive with flags already set (the output of an earlier run, or
\* flags in the LLM output that normalizeTransactionData keeps, lines 88-90).
FlaggedRows ==
    { Row("", "Salary", <<100>>, "debit", <<1000>>, TRUE, FALSE, FALSE),
      Row("02/04/2024", "Salary", <<100>>, "credit", <<1100>>, TRUE, TRUE, TRUE),
      Row("01/04/2024", "OPENING BALANCE", <<0>>, NULL, <<1101>>, TRUE, FALSE, FALSE) }

\* Rows whose amount is half the tolerance.
SmallAmountRows ==
    { Row("02/04/2024", "Salary", <<50>>, t, <<1000>>, FALSE, FALSE, FALSE) :
        t \in {"credit", "debit"} }

RowDomain ==
    RegularRows \cup OpeningRows \cup BrokenRows \cup FlaggedRows \cup SmallAmountRows

\* ------------------------------------------------ POST /api/upload (server.js)

NoResponse == [status |-> 0]

\* Page texts: an empty page, a page of white space, a page with text.
PageTexts == {"", "  \n", "02/04/2024 Salary 100.00 1,100.00"}

\* pageText.trim().length === 0 on the page texts of the model.
trimmedLength(pageText) ==
    CASE pageText = ""     -> 0
      [] pageText = "  \n" -> 0
      [] OTHER             -> 1

\* Line 206: !pageText || pageText.trim().length === 0
isEmptyPage(pageText) == pageText = "" \/ trimmedLength(pageText) = 0

\* Raw rows the LLM may write.
rawOpening ==
    [date |-> Str("01/04/2024"), description |-> Str("OPENING BALANCE"),
     amount |-> Num(0), type |-> Null, running_balance |-> Num(1000)]
rawSalary ==
    [date |-> Str("02/04/2024"), description |-> Str("Salary"),
     amount |-> Num(100), type |-> Str("credit"), running_balance |-> Num(1100)]
rawSalaryAsDebit ==
    [date |-> Str("02/04/2024"), description |-> Str("Salary"),
     amount |-> Num(100), type |-> Str("debit"), running_balance |-> Num(1100)]
rawAliased ==
    ("Transaction Date" :> Str("03/04/2024")) @@ ("Narration" :> Str("Salary\nApril"))
    @@ ("Credit" :> Str("100.00")) @@ ("Balance" :> Str("1,100.00"))
rawNoBalance ==
    [date |-> Str("04/04/2024"), description |-> Str("Salary"),
     amount |-> Num(100), type |-> Str("credit")]

\* Rows in which the LLM wrote provenance flags.
rawTypeCorrected ==
    [date |-> Str("02/04/2024"), description |-> Str("Salary"),
     amount |-> Num(100), type |-> Str("credit"), running_balance |-> Num(1100),
     typeCorrected |-> Bool(TRUE)]
rawMismatch ==
    [date |-> Str("05/04/2024"), description |-> Str("Salary"),
     amount |-> Num(100), type |-> Str("credit"), running_balance |-> Num(1000),
     balanceMismatch |-> Bool(TRUE)]

\* What extractTransactionsWithAI may resolve to for one page.
AiRowLists ==
    { <<>>,
      <<rawOpening, rawSalary>>,
      <<rawOpening, rawSalaryAsDebit>>,
      <<rawAliased>>,
      <<rawSalary, rawNoBalance>>,
      <<rawMismatch, rawTypeCorrected>> }

\* The errors extractTransactionsWithAI throws (aiProcessor.js 417-484).
AiErrors ==
    { "Failed to retrieve extraction prompt.",
      "Failed to process transactions with AI: transport",
      "Failed to process transactions with AI: Failed to parse AI response as JSON",
      "Failed to process transactions with AI: AI response did not match any expected structure." }

\* What extractTransactionsWithPatterns returns: rows with date, description,
\* amount and type 'unknown'.
patternRow ==
    [date |-> Str("02/04/2024"), description |-> Str("Salary"),
     amount |-> Num(100), type |-> Str("unknown")]

PatternRowLists == { <<>>, <<patternRow>> }

NotCalled == [called |-> FALSE]
Threw(message) == [called |-> TRUE, error |-> message]
Resolved(rows) == [called |-> TRUE, rows |-> rows]

\* A handler that puts the rows of a page in front of the rows collected.
pushAllInFront(all, transactionsFromPage) == transactionsFromPage \o all

\* allTransactions.push(...transactionsFromPage), lines 220-228.
pushAll(all, transactionsFromPage) ==
    IF Len(transactionsFromPage) > 0 THEN all \o transactionsFromPage ELSE all

\* A handler whose page loop lets the error of a page reach the outer catch.
afterPageErrorAbort == "finally"

\* The catch of the page loop (lines 229-234) swallows the error: the handler
\* goes on with the loop.
afterPageError == "loop"

\* A handler that runs the pattern extractor after every page loop.
needsFallbackAlways(all) == TRUE

\* Line 242: the pattern extractor runs only when the pages gave no row.
needsFallback(all) == Len(all) = 0

\* A handler in which a failed INSERT leaves the try block like any other error.
afterStoreErrorAbort == "finally"

\* The catch around the INSERT (lines 297-301) logs the error: the handler goes
\* on to the CSV.
afterStoreError == "csv"

\* A handler whose early return leaves the function without the finally block.
exitWithoutFinally == "done"

\* A return inside the try block (lines 183-186, 261-264) and an error caught
\* at line 321 both pass through the finally block of lines 326-338.
exitThroughFinally == "finally"

\* Lines 271-276, with the 0-based index of the row.
flagsRaised(all) ==
    LET flagsOf(k) ==
            [index |-> k - 1,
             balanceMismatch |-> Truthy(Get(all[k], "balanceMismatch")),
             correctedType |-> Truthy(Get(all[k], "correctedType")),
             invalidStructure |-> Truthy(Get(all[k], "invalidStructure"))]
        raised(f) == f.balanceMismatch \/ f.correctedType \/ f.invalidStructure
    IN SelectSeq([k \in 1..Len(all) |-> flagsOf(k)], raised)

\* An error handler that answers nothing.
routeErrorUnanswered(message) == NoResponse

\* The route's error handler (lines 340-352) answers an error forwarded with
\* next(error).
routeErrorResponse(message) == [status |-> 400, error |-> message]

UploadInit ==
    /\ pc = "request"
    /\ pagesTextArray = <<>>
    /\ identifiedBank = NULL
    /\ pageIndex = 1
    /\ allTransactions = <<>>
    /\ extractionMethod = "ai"
    /\ runId = <<>>
    /\ ProcessingResults = <<>>
    /\ csvExports = <<>>
    /\ response = NoResponse
    /\ uploadDeleted = FALSE
    /\ aiCalls = {}
    /\ aiResults = [p \in 1..MaxPages |-> NotCalled]
    /\ patternResult = NotCalled

\* Lines 165-169: no req.file.
NoFileUploaded ==
    /\ pc = "request"
    /\ response' = [status |-> 400, error |-> "No file uploaded or file type invalid."]
    /\ pc' = "done"
    /\ UNCHANGED <<serviceVars, reconcilerVars, normalizerVars,
                   pagesTextArray, identifiedBank, pageIndex, allTransactions,
                   extractionMethod, runId, ProcessingResults, csvExports,
                   uploadDeleted, aiCalls, aiResults, patternResult>>

\* Lines 180-186: getTextPerPage answers the page texts.
SplitPages(pages) ==
    /\ pc = "request"
    /\ pagesTextArray' = pages
    /\ IF Len(pages) = 0
       THEN /\ response' = [status |-> 500, error |-> "Could not extract text from PDF."]
            /\ pc' = exitThroughFinally
       ELSE /\ response' = response
            /\ pc' = "identify"
    /\ UNCHANGED <<serviceVars, reconcilerVars, normalizerVars,
                   identifiedBank, pageIndex, allTransactions, extractionMethod,
                   runId, ProcessingResults, csvExports, uploadDeleted, aiCalls,
                   aiResults, patternResult>>

\* Lines 180-181 throw (readFileSync, getTextPerPage); lines 321-325 forward.
SplitThrows ==
    /\ pc = "request"
    /\ response' = routeErrorResponse("Failed to parse PDF page by page.")
    /\ pc' = exitThroughFinally
    /\ UNCHANGED <<serviceVars, reconcilerVars, normalizerVars,
                   pagesTextArray, identifiedBank, pageIndex, allTransactions,
                   extractionMethod, runId, ProcessingResults, csvExports,
                   uploadDeleted, aiCalls, aiResults, patternResult>>

\* Lines 189-192: identifyBankWithAI never throws; it is skipped for an empty
\* first page.
IdentifyBank(bank) ==
    /\ pc = "identify"
    /\ identifiedBank' = IF pagesTextArray[1] # "" THEN bank ELSE NULL
    /\ pc' = "loop"
    /\ UNCHANGED <<serviceVars, reconcilerVars, normalizerVars,
                   pagesTextArray, pageIndex, allTransactions, extractionMethod,
                   runId, ProcessingResults, csvExports, response, uploadDeleted,
                   aiCalls, aiResults, patternResult>>

\* Lines 206-209: an empty page is skipped.
SkipEmptyPage ==
    /\ pc = "loop"
    /\ pageIndex <= Len(pagesTextArray)
    /\ isEmptyPage(pagesTextArray[pageIndex])
    /\ pageIndex' = pageIndex + 1
    /\ UNCHANGED <<serviceVars, reconcilerVars, normalizerVars,
                   pc, pagesTextArray, identifiedBank, allTransactions,
                   extractionMethod, runId, ProcessingResults, csvExports,
                   response, uploadDeleted, aiCalls, aiResults, patternResult>>

\* Line 213: extractTransactionsWithAI(pageText, identifiedBank) is called and
\* awaited.
SubmitPage ==
    /\ pc = "loop"
    /\ pageIndex <= Len(pagesTextArray)
    /\ ~isEmptyPage(pagesTextArray[pageIndex])
    /\ aiCalls' = aiCalls \cup {pageIndex}
    /\ pc' = "awaitAI"
    /\ UNCHANGED <<serviceVars, reconcilerVars, normalizerVars,
                   pagesTextArray, identifiedBank, pageIndex, allTransactions,
                   extractionMethod, runId, ProcessingResults, csvExports,
                   response, uploadDeleted, aiResults, patternResult>>

\* Lines 213-228: the call resolves.
AiReturns(rows) ==
    /\ pc = "awaitAI"
    /\ allTransactions' = pushAll(allTransactions, rows)
    /\ aiResults' = [aiResults EXCEPT ![pageIndex] = Resolved(rows)]
    /\ pageIndex' = pageIndex + 1
    /\ pc' = "loop"
    /\ UNCHANGED <<serviceVars, reconcilerVars, normalizerVars,
                   pagesTextArray, identifiedBank, extractionMethod, runId,
                   ProcessingResults, csvExports, response, uploadDeleted,
                   aiCalls, patternResult>>

\* Lines 229-234: the call throws.
AiThrows(message) ==
    /\ pc = "awaitAI"
    /\ extractionMethod' = "partial_ai_fallback_needed"
    /\ aiResults' = [aiResults EXCEPT ![pageIndex] = Threw(message)]
    /\ IF afterPageError = "loop"
       THEN /\ pageIndex' = pageIndex + 1
            /\ pc' = "loop"
            /\ response' = response
       ELSE /\ pageIndex' = pageIndex
            /\ pc' = exitThroughFinally
            /\ response' = routeErrorResponse(message)
    /\ UNCHANGED <<serviceVars, reconcilerVars, normalizerVars,
                   pagesTextArray, identifiedBank, allTransactions, runId,
                   ProcessingResults, csvExports, uploadDeleted, aiCalls,
                   patternResult>>

\* Lines 237-242, 261, 268: the loop ends; with rows the handler goes on to
\* store them.
EndOfPages ==
    /\ pc = "loop"
    /\ pageIndex > Len(pagesTextArray)
    /\ pc' = IF needsFallback(allTransactions) THEN "fallback" ELSE "store"
    /\ UNCHANGED <<serviceVars, reconcilerVars, normalizerVars,
                   pagesTextArray, identifiedBank, pageIndex, allTransactions,
                   extractionMethod, runId, ProcessingResults, csvExports,
                   response, uploadDeleted, aiCalls, aiResults, patternResult>>

\* Line 245 throws: pdf(dataBuffer); lines 321-325 forward.
RereadThrows ==
    /\ pc = "fallback"
    /\ response' = routeErrorResponse("pdf")
    /\ pc' = exitThroughFinally
    /\ UNCHANGED <<serviceVars, reconcilerVars, normalizerVars,
                   pagesTextArray, identifiedBank, pageIndex, allTransactions,
                   extractionMethod, runId, ProcessingResults, csvExports,
                   uploadDeleted, aiCalls, aiResults, patternResult>>

\* Lines 245-264: the pattern fallback returns, then the no-transactions check.
PatternReturns(rows) ==
    /\ pc = "fallback"
    /\ patternResult' = Resolved(rows)
    /\ allTransactions' = rows
    /\ IF Len(rows) > 0
       THEN /\ extractionMethod' = "pattern_fallback"
            /\ response' = response
            /\ pc' = "store"
       ELSE /\ extractionMethod' = extractionMethod
            /\ response' = [status |-> 400,
                            error |-> "Could not extract transactions from the document after all attempts."]
            /\ pc' = exitThroughFinally
    /\ UNCHANGED <<serviceVars, reconcilerVars, normalizerVars,
                   pagesTextArray, identifiedBank, pageIndex, runId,
                   ProcessingResults, csvExports, uploadDeleted, aiCalls, aiResults>>

\* Lines 255-264: the pattern fallback throws, allTransactions stays empty.
PatternThrows ==
    /\ pc = "fallback"
    /\ patternResult' = Threw("pattern")
    /\ response' = [status |-> 400,
                    error |-> "Could not extract transactions from the document after all attempts."]
    /\ pc' = exitThroughFinally
    /\ UNCHANGED <<serviceVars, reconcilerVars, normalizerVars,
                   pagesTextArray, identifiedBank, pageIndex, allTransactions,
                   extractionMethod, runId, ProcessingResults, csvExports,
                   uploadDeleted, aiCalls, aiResults>>

\* Lines 267-296: the INSERT into ProcessingResults succeeds.
StoreRun ==
    /\ pc = "store"
    /\ ProcessingResults' =
            Append(ProcessingResults,
                   [id |-> Len(ProcessingResults) + 1,
                    initial_ai_result_json |-> allTransactions,
                    flags_raised_json |-> flagsRaised(allTransactions),
                    user_confirmed_accuracy |-> <<>>])
    /\ runId' = <<Len(ProcessingResults) + 1>>
    /\ pc' = "csv"
    /\ UNCHANGED <<serviceVars, reconcilerVars, normalizerVars,
                   pagesTextArray, identifiedBank, pageIndex, allTransactions,
                   extractionMethod, csvExports, response, uploadDeleted,
                   aiCalls, aiResults, patternResult>>

\* Lines 297-301: the INSERT throws; the error is logged.
StoreRunFails ==
    /\ pc = "store"
    /\ runId' = <<>>
    /\ pc' = afterStoreError
    /\ response' = IF afterStoreError = "csv"
                   THEN response
                   ELSE routeErrorResponse("Error saving processing result to database")
    /\ UNCHANGED <<serviceVars, reconcilerVars, normalizerVars,
                   pagesTextArray, identifiedBank, pageIndex, allTransactions,
                   extractionMethod, ProcessingResults, csvExports,
                   uploadDeleted, aiCalls, aiResults, patternResult>>

\* Lines 306-319: generateCsv writes the file and the response is sent.
GenerateCsvAndRespond ==
    /\ pc = "csv"
    /\ csvExports' = Append(csvExports, allTransactions)
    /\ response' = [status |-> 200,
                    extractionMethod |-> extractionMethod,
                    fullTransactions |-> allTransactions,
                    totalTransactions |-> Len(allTransactions),
                    downloadId |-> Len(csvExports) + 1,
                    runId |-> runId]
    /\ pc' = exitThroughFinally
    /\ UNCHANGED <<serviceVars, reconcilerVars, normalizerVars,
                   pagesTextArray, identifiedBank, pageIndex, allTransactions,
                   extractionMethod, runId, ProcessingResults, uploadDeleted,
                   aiCalls, aiResults, patternResult>>

\* Line 307 throws; lines 321-325 forward.
GenerateCsvThrows ==
    /\ pc = "csv"
    /\ response' = routeErrorResponse("Failed to generate CSV file.")
    /\ pc' = exitThroughFinally
    /\ UNCHANGED <<serviceVars, reconcilerVars, normalizerVars,
                   pagesTextArray, identifiedBank, pageIndex, allTransactions,
                   extractionMethod, runId, ProcessingResults, csvExports,
                   uploadDeleted, aiCalls, aiResults, patternResult>>

\* Lines 326-338: finally.
CleanUp ==
    /\ pc = "finally"
    /\ uploadDeleted' = TRUE
    /\ pc' = "done"
    /\ UNCHANGED <<serviceVars, reconcilerVars, normalizerVars,
                   pagesTextArray, identifiedBank, pageIndex, allTransactions,
                   extractionMethod, runId, ProcessingResults, csvExports,
                   response, aiCalls, aiResults, patternResult>>

RECURSIVE PageLists(_)
PageLists(n) ==
    IF n = 0 THEN {<<>>}
    ELSE PageLists(n - 1)
         \cup { Append(pages, text) :
                    pages \in { q \in PageLists(n - 1) : Len(q) = n - 1 },
                    text \in PageTexts }

UploadNext ==
    \/ NoFileUploaded
    \/ \E pages \in PageLists(MaxPages) : SplitPages(pages)
    \/ SplitThrows
    \/ \E bank \in {NULL, "ICICI"} : IdentifyBank(bank)
    \/ SkipEmptyPage
    \/ SubmitPage
    \/ \E rows \in AiRowLists : AiReturns(rows)
    \/ \E message \in AiErrors : AiThrows(message)
    \/ EndOfPages
    \/ RereadThrows
    \/ \E rows \in PatternRowLists : PatternReturns(rows)
    \/ PatternThrows
    \/ StoreRun
    \/ StoreRunFails
    \/ GenerateCsvAndRespond
    \/ GenerateCsvThrows
    \/ CleanUp

\* No upload is in progress (the reconciler is run on its own).
UploadIdle ==
    /\ pc = "done"
    /\ pagesTextArray = <<>>
    /\ identifiedBank = NULL
    /\ pageIndex = 1
    /\ allTransactions = <<>>
    /\ extractionMethod = "ai"
    /\ runId = <<>>
    /\ ProcessingResults = <<>>
    /\ csvExports = <<>>
    /\ response = NoResponse
    /\ uploadDeleted = FALSE
    /\ aiCalls = {}
    /\ aiResults = [p \in 1..MaxPages |-> NotCalled]
    /\ patternResult = NotCalled

\* Neither extractTransactionsWithAI nor normalizeTransactionData is running
\* (server.js calls the first inside the page loop and never the second).
NormalizerIdle ==
    /\ extractCall = NotCalled
    /\ extractResult = NotCalled
    /\ rawTransactions = <<>>
    /\ normalizedTransactions = <<>>
    /\ normalizerPc = "input"

\* No request to /api/confirm-accuracy was made and no feedback is stored.
ConfirmIdle ==
    /\ confirmRequest = <<>>
    /\ confirmResponse = <<>>
    /\ FeedbackSubmissions = <<>>

\* compareResults is not running.
CompareIdle ==
    /\ initialData = <<>>
    /\ correctedData = <<>>
    /\ analysis = NotCalled

\* No request to /api/download was made.
DownloadIdle ==
    /\ exportsDir = {}
    /\ downloadId = <<>>
    /\ downloadResponse = NoResponse
    /\ fsAccessed = {}

ServiceIdle == ConfirmIdle /\ CompareIdle /\ DownloadIdle

Init ==
    /\ UploadInit
    /\ ServiceIdle
    /\ transactions = <<>>
    /\ processedTransactions = <<>>
    /\ runs = 0
    /\ NormalizerIdle

Next == UploadNext

Spec == Init /\ [][Next]_vars

\* ------------------------------------------- the reconciler, run on a list

ReconcilerInit ==
    /\ ServiceIdle
    /\ transactions = <<>>
    /\ processedTransactions = <<>>
    /\ runs = 0
    /\ UploadIdle
    /\ NormalizerIdle

\* The caller builds the argument, one row at a time.
Receive(row) ==
    /\ runs = 0
    /\ Len(transactions) < MaxRows
    /\ transactions' = Append(transactions, row)
    /\ UNCHANGED <<serviceVars, processedTransactions, runs, uploadVars, normalizerVars>>

\* validateTransactionBalances(transactions)
Validate ==
    /\ runs = 0
    /\ processedTransactions' = validateTransactionBalances(transactions)
    /\ runs' = 1
    /\ UNCHANGED <<serviceVars, transactions, uploadVars, normalizerVars>>

\* validateTransactionBalances applied to what it returned.
Revalidate ==
    /\ runs = 1
    /\ transactions' = processedTransactions
    /\ processedTransactions' = validateTransactionBalances(processedTransactions)
    /\ runs' = 2
    /\ UNCHANGED <<serviceVars, uploadVars, normalizerVars>>

ReconcilerNext ==
    \/ \E row \in RowDomain : Receive(row)
    \/ Validate
    \/ Revalidate

ReconcilerSpec == ReconcilerInit /\ [][ReconcilerNext]_vars

\* ------------------------------------------------ reading a reconciled list

\* The greatest index below i whose row passes isValidTransaction; 0 if none.
ValidPredecessor(rows, i) == prevProcessedValidIndex(SubSeq(rows, 1, i - 1))

\* A row whose amount and running balance are numbers and whose type is credit
\* or debit: the rows the balance equation is written for.
HasArithmetic(row) ==
    /\ row.amount # NaN
    /\ row.running_balance # NaN
    /\ row.type \in {"credit", "debit"}

\* |running_balance_i - (running_balance_p + signed amount_i)| with the type given.
DifferenceWith(type, rows, p, i) ==
    Abs(rows[i].running_balance[1]
        - expectedBalanceFor(type, rows[p].running_balance[1], rows[i].amount[1]))

\* signed(row) * amount of invariant (1): + for credit, - for debit, and
\* nothing to add for a row without a type.
SignedAmount(row) ==
    IF row.type = "credit" THEN row.amount[1]
    ELSE IF row.type = "debit" THEN 0 - row.amount[1]
    ELSE 0

\* Row i satisfies the balance equation against row p with its stored type.
BalanceEquation(rows, p, i) ==
    /\ rows[i].amount # NaN
    /\ rows[i].running_balance # NaN
    /\ Abs(rows[i].running_balance[1]
           - (rows[p].running_balance[1] + SignedAmount(rows[i]))) <= BALANCE_TOLERANCE

\* An opening balance row of the canonical schema: a row with a date and a
\* numeric running balance, amount 0, type null and an opening description.
IsOpeningBalanceRow(row) ==
    /\ isValidTransaction(row)
    /\ row.type = NULL

Reconciled == runs >= 1

RowsAfterFirstValid ==
    IF firstValidIndex(transactions) = 0
    THEN {}
    ELSE (firstValidIndex(transactions) + 1)..Len(transactions)

\* ------------------------------------------------------------------ claims

\* C1 (as stated): after validateTransactionBalances, every row i after the
\* first valid row has invalidStructure set, or balanceMismatch set, or its
\* running balance is within 0.10 of the running balance of its valid
\* predecessor p plus its signed amount (stored type).
C1_BalanceOrFlag ==
    Reconciled =>
        \A i \in RowsAfterFirstValid :
            \/ processedTransactions[i].invalidStructure
            \/ processedTransactions[i].balanceMismatch
            \/ BalanceEquation(processedTransactions,
                               ValidPredecessor(processedTransactions, i), i)

\* C1 (amended): the same, except for opening balance rows (amount 0, type
\* null), which are emitted without flags and without an arithmetic check.
C1_BalanceOrFlagOrOpening ==
    Reconciled =>
        \A i \in RowsAfterFirstValid :
            \/ processedTransactions[i].invalidStructure
            \/ processedTransactions[i].balanceMismatch
            \/ IsOpeningBalanceRow(processedTransactions[i])
            \/ /\ HasArithmetic(processedTransactions[i])
               /\ BalanceEquation(processedTransactions,
                                  ValidPredecessor(processedTransactions, i), i)

\* C1 witness: a row after the first valid row was emitted without a flag
\* because its balance matches its stored type within the tolerance, with a
\* flagged invalid row between it and its predecessor.
C1_Witness ==
    /\ Reconciled
    /\ \E i \in RowsAfterFirstValid :
        /\ ~processedTransactions[i].invalidStructure
        /\ ~processedTransactions[i].balanceMismatch
        /\ HasArithmetic(processedTransactions[i])
        /\ processedTransactions[i].amount[1] > BALANCE_TOLERANCE - 1
        /\ ValidPredecessor(processedTransactions, i) < i - 1
        /\ BalanceEquation(processedTransactions,
                           ValidPredecessor(processedTransactions, i), i)

\* C2 (as stated): a valid credit/debit row after the first valid row whose
\* balance fails with its type and holds with the opposite type is emitted
\* with typeCorrected, the opposite type and no balanceMismatch; and every
\* emitted row with typeCorrected satisfies the balance equation against its
\* valid predecessor with its stored type.
C2_TypeFlipRepair ==
    Reconciled =>
        /\ \A i \in RowsAfterFirstValid :
            LET p == ValidPredecessor(transactions, i)
                tx == transactions[i]
            IN (/\ isValidTransaction(tx)
                /\ HasArithmetic(tx)
                /\ DifferenceWith(tx.type, transactions, p, i) > BALANCE_TOLERANCE
                /\ DifferenceWith(flippedTypeOf(tx.type), transactions, p, i)
                       <= BALANCE_TOLERANCE)
               => /\ processedTransactions[i].typeCorrected
                  /\ processedTransactions[i].type = flippedTypeOf(tx.type)
                  /\ ~processedTransactions[i].balanceMismatch
        /\ \A i \in 1..Len(processedTransactions) :
            (/\ processedTransactions[i].typeCorrected
             /\ ValidPredecessor(processedTransactions, i) # 0)
            => /\ HasArithmetic(processedTransactions[i])
               /\ BalanceEquation(processedTransactions,
                                  ValidPredecessor(processedTransactions, i), i)

C4_CorrectedExcludesMismatch ==
    Reconciled =>
        \A i \in 1..Len(processedTransactions) :
            ~(processedTransactions[i].typeCorrected
              /\ processedTransactions[i].balanceMismatch)

\* C5 (as stated): the reconciler is idempotent: run on its own output it
\* returns that output, field for field.
C5_Idempotent ==
    runs = 2 => processedTransactions = transactions

\* C6 (as stated): every emitted row with invalidStructure also has
\* balanceMismatch; the rows before the first valid row have both; when no row
\* is valid every row has invalidStructure.
C6_InvalidImpliesMismatch ==
    Reconciled =>
        /\ \A i \in 1..Len(processedTransactions) :
            processedTransactions[i].invalidStructure
                => processedTransactions[i].balanceMismatch
        /\ \A i \in 1..Len(processedTransactions) :
            (firstValidIndex(transactions) = 0 \/ i < firstValidIndex(transactions))
                => processedTransactions[i].invalidStructure

\* C7: an opening balance row, wherever it stands, is emitted with
\* balanceMismatch and invalidStructure false, amount 0 and type null,
\* whatever its running balance.
C7_OpeningBalanceNotChecked ==
    Reconciled =>
        \A i \in 1..Len(transactions) :
            IsOpeningBalanceRow(transactions[i])
            => /\ ~processedTransactions[i].balanceMismatch
               /\ ~processedTransactions[i].invalidStructure
               /\ processedTransactions[i].amount = <<0>>
               /\ processedTransactions[i].type = NULL
               /\ processedTransactions[i].running_balance
                    = transactions[i].running_balance

\* C7 witness: an opening balance row after the first valid row whose running
\* balance is more than the tolerance away from its predecessor's was emitted
\* without a flag.
C7_Witness ==
    /\ Reconciled
    /\ \E i \in RowsAfterFirstValid :
        /\ IsOpeningBalanceRow(transactions[i])
        /\ Abs(transactions[i].running_balance[1]
               - transactions[ValidPredecessor(transactions, i)].running_balance[1])
             > BALANCE_TOLERANCE
        /\ ~processedTransactions[i].balanceMismatch

\* ------------------------------------------------- reading an upload's run

\* The rows extractTransactionsWithAI answered for page p.
RowsOfPage(p) ==
    IF "rows" \in DOMAIN aiResults[p] THEN aiResults[p].rows ELSE <<>>

\* The rows of pages 1..n, page after page.
RECURSIVE RowsOfPages(_)
RowsOfPages(n) == IF n = 0 THEN <<>> ELSE RowsOfPages(n - 1) \o RowsOfPage(n)

PageFailed(p) == "error" \in DOMAIN aiResults[p]

NonEmptyPages == { p \in 1..Len(pagesTextArray) : ~isEmptyPage(pagesTextArray[p]) }

\* The raw rows the extraction stage produced for this upload.
ExtractedRows ==
    IF extractionMethod = "pattern_fallback"
    THEN patternResult.rows
    ELSE RowsOfPages(MaxPages)

CanonicalView(rows) == [k \in 1..Len(rows) |-> AsCanonicalRow(rows[k])]

Answered200 == response.status = 200

\* C8 (as stated): the rows of fullTransactions, of the stored run and of the
\* CSV are the extracted rows after normalizeTransactionData and then
\* validateTransactionBalances.
C8_NormalizedThenReconciled ==
    Answered200 =>
        LET expected ==
                validateTransactionBalances(normalizeTransactionData(ExtractedRows))
        IN /\ CanonicalView(response.fullTransactions) = expected
           /\ CanonicalView(csvExports[response.downloadId]) = expected
           /\ response.runId # <<>> =>
                CanonicalView(ProcessingResults[response.runId[1]].initial_ai_result_json)
                    = expected

\* C9: the rows collected from the pages are in document order: they are the
\* rows of page 1, then those of page 2, ..., each page's rows in the order the
\* extractor returned them; so are the rows of the response.
C9_DocumentOrder ==
    /\ extractionMethod # "pattern_fallback" => allTransactions = RowsOfPages(MaxPages)
    /\ (Answered200 /\ response.extractionMethod # "pattern_fallback")
            => response.fullTransactions = RowsOfPages(MaxPages)

\* C9 witness: a successful upload in which two pages returned different rows.
C9_Witness ==
    /\ Answered200
    /\ \E p, q \in 1..MaxPages :
        /\ p < q
        /\ Len(RowsOfPage(p)) > 1
        /\ Len(RowsOfPage(q)) > 0
        /\ RowsOfPage(p) # RowsOfPage(q)

\* C10: a page whose extraction fails does not abort the upload: once the
\* handler is past the page loop every non-empty page was submitted, the
\* response never carries the page's error, and a successful response holds
\* every row of every page that succeeded.
C10_PageFailureIsSkipped ==
    /\ (Len(pagesTextArray) > 0 /\ pc \in {"fallback", "store", "csv", "finally", "done"})
            => aiCalls = NonEmptyPages
    /\ \A p \in 1..MaxPages :
            (PageFailed(p) /\ response # NoResponse /\ response.status # 200)
                => response.error # aiResults[p].error
    /\ Answered200 =>
            \A p \in 1..MaxPages :
                \A k \in 1..Len(RowsOfPage(p)) :
                    \E j \in 1..Len(response.fullTransactions) :
                        response.fullTransactions[j] = RowsOfPage(p)[k]

\* C10 witness: a successful upload in which the extraction of one page failed
\* and a later page was still submitted and returned rows.
C10_Witness ==
    /\ Answered200
    /\ \E p, q \in 1..MaxPages :
        /\ p < q
        /\ PageFailed(p)
        /\ q \in aiCalls
        /\ Len(RowsOfPage(q)) > 0

\* ------------------------------------------------ the upload's exits

\* The handler with its awaited calls settling: every step that can be taken
\* is eventually taken.
UploadFairSpec == Spec /\ WF_vars(Next)

NoFileAnswer == [status |-> 400, error |-> "No file uploaded or file type invalid."]

NoTransactionsAnswer ==
    [status |-> 400,
     error |-> "Could not extract transactions from the document after all attempts."]

PatternCalled == patternResult # NotCalled

\* The pattern extractor was called and gave no row (an empty list or an error).
PatternGaveNothing ==
    /\ PatternCalled
    /\ "rows" \in DOMAIN patternResult => patternResult.rows = <<>>

\* C11: when the pages gave no row and the pattern fallback gave none either,
\* the upload is answered with a 4xx error, no CSV is written and no run is
\* stored; the pattern extractor is called only when the pages gave no row.
C11_NoTransactionsIsAnError ==
    /\ (PatternGaveNothing /\ pc \in {"finally", "done"})
            => /\ response.status \in 400..499
               /\ response = NoTransactionsAnswer
               /\ csvExports = <<>>
               /\ ProcessingResults = <<>>
    /\ PatternCalled => RowsOfPages(MaxPages) = <<>>
    /\ pc = "fallback" => allTransactions = <<>>

\* C11 witness: every submitted page resolved to no row, the pattern extractor
\* returned no row, and the upload was answered.
C11_Witness ==
    /\ pc = "done"
    /\ aiCalls # {}
    /\ \A p \in aiCalls : aiResults[p] = Resolved(<<>>)
    /\ patternResult = Resolved(<<>>)
    /\ response.status = 400

\* C12: a failed INSERT into ProcessingResults does not end the upload: the
\* handler goes on to the CSV, a successful answer then carries the rows, a
\* downloadId of a written CSV and runId null, and no answer carries the
\* database error.
C12_RunPersistenceFailureNotSurfaced ==
    /\ (pc = "csv" /\ ProcessingResults = <<>>)
            => response = NoResponse /\ runId = <<>>
    /\ (Answered200 /\ ProcessingResults = <<>>)
            => /\ response.runId = <<>>
               /\ response.downloadId \in 1..Len(csvExports)
               /\ csvExports[response.downloadId] = response.fullTransactions
               /\ Len(response.fullTransactions) > 0
    /\ (response # NoResponse /\ response.status # 200)
            => response.error # "Error saving processing result to database"

\* C12 witness: the INSERT failed and the upload was answered with success.
C12_Witness ==
    /\ Answered200
    /\ ProcessingResults = <<>>
    /\ response.runId = <<>>
    /\ csvExports # <<>>

\* C13 (as stated): the number of stored runs is the number of uploads
\* answered with success: an upload answered with 200 has one run, an upload
\* answered with an error has none.
C13_OneRunPerSuccess ==
    pc = "done" => Len(ProcessingResults) = (IF Answered200 THEN 1 ELSE 0)

\* C14: once the handler is inside its try block, the deletion of the uploaded
\* file is eventually requested, whatever the exit; an upload that is over and
\* had a file has had its deletion requested.
C14_ScratchFileDeleted ==
    /\ (pc \notin {"request", "done"}) ~> uploadDeleted
    /\ []((pc = "done" /\ response # NoFileAnswer) => uploadDeleted)

\* C14 witness: the CSV generation threw after the run was stored, and the
\* deletion was requested.
C14_Witness ==
    /\ uploadDeleted
    /\ ProcessingResults # <<>>
    /\ response.status = 400

\* A row has one of the three provenance flags of the canonical schema set.
AnyFlag(row) ==
    \/ AsCanonicalRow(row).balanceMismatch
    \/ AsCanonicalRow(row).typeCorrected
    \/ AsCanonicalRow(row).invalidStructure

\* C15 (as stated): the flags list stored with a run has an entry for row i
\* exactly when row i of the stored rows has one of its three flags set, and
\* the entry carries the three flag values of that row.
C15_FlagsListMatchesRows ==
    \A r \in 1..Len(ProcessingResults) :
        LET rows == ProcessingResults[r].initial_ai_result_json
            flags == ProcessingResults[r].flags_raised_json
        IN /\ \A i \in 1..Len(rows) :
                AnyFlag(rows[i]) <=> \E k \in 1..Len(flags) : flags[k].index = i - 1
           /\ \A k \in 1..Len(flags) :
                LET row == AsCanonicalRow(rows[flags[k].index + 1])
                IN /\ flags[k].balanceMismatch = row.balanceMismatch
                   /\ flags[k].correctedType = row.typeCorrected
                   /\ flags[k].invalidStructure = row.invalidStructure

\* ------------------------------------- extractTransactionsWithAI (aiProcessor.js)

\* What JSON.parse answers: a JSON value, tagged by its kind.  The elements of
\* an array are raw rows.
JArray(items) == [array |-> items]
JObject(fields) == [object |-> fields]
JString(s) == [string |-> s]
JNumber(n) == [number |-> n]
JNull == [null |-> TRUE]

ParseError == [ok |-> FALSE]
Parsed(value) == [ok |-> TRUE, value |-> value]

\* Response texts of the LLM.  The rows are written by their description only.
arrayText == "[{\"description\":\"OPENING BALANCE\"},{\"description\":\"Salary\"}]"
emptyArrayText == "[]"
objectText == "{\"transactions\":[{\"description\":\"Salary\"}]}"
emptyObjectText == "{\"transactions\":[]}"
\* The markdown fence, three backquotes, written with quotes here.
fence == "'''"
reversedArrayText == "[{\"description\":\"Salary\"},{\"description\":\"OPENING BALANCE\"}]"
fencedText == fence \o "json\n" \o reversedArrayText \o "\n" \o fence
fencedTextWithNewline ==
    fence \o "json\n[{\"description\":\"Salary\"}]\n" \o fence \o "\n"
proseText == "Here are the transactions you asked for."
truncatedText == "[{\"description\":\"Salary\"},{\"descr"
otherKeyText == "{\"rows\":[{\"description\":\"Salary\"}]}"
transactionsNotArrayText == "{\"transactions\":\"none\"}"
numberText == "42"
nullText == "null"
stringText == "\"none\""

ResponseTexts ==
    { "", arrayText, reversedArrayText, emptyArrayText, objectText, emptyObjectText, fencedText,
      fencedTextWithNewline, proseText, truncatedText, otherKeyText,
      transactionsNotArrayText, numberText, nullText, stringText }

\* Line 447: the replace that removes a leading json fence and a fence at the
\* very end of the text, then trim(), on the texts of the model.
stripFences(jsonText) ==
    CASE jsonText = fencedText -> reversedArrayText
      [] jsonText = fencedTextWithNewline ->
            "[{\"description\":\"Salary\"}]\n" \o fence
      [] OTHER -> jsonText

\* JSON.parse on the texts of the model (line 448).
JSONparse(text) ==
    CASE text = arrayText -> Parsed(JArray(<<rawOpening, rawSalary>>))
      [] text = reversedArrayText -> Parsed(JArray(<<rawSalary, rawOpening>>))
      [] text = emptyArrayText -> Parsed(JArray(<<>>))
      [] text = objectText ->
            Parsed(JObject("transactions" :> JArray(<<rawSalaryAsDebit>>)))
      [] text = emptyObjectText -> Parsed(JObject("transactions" :> JArray(<<>>)))
      [] text = otherKeyText -> Parsed(JObject("rows" :> JArray(<<rawSalary>>)))
      [] text = transactionsNotArrayText ->
            Parsed(JObject("transactions" :> JString("none")))
      [] text = numberText -> Parsed(JNumber(42))
      [] text = nullText -> Parsed(JNull)
      [] text = stringText -> Parsed(JString("none"))
      [] OTHER -> ParseError

\* An extractor that answers no rows for a response of another shape.
acceptedRowsOrNone(parsedData) ==
    IF "array" \in DOMAIN parsedData THEN Resolved(parsedData.array)
    ELSE IF /\ "object" \in DOMAIN parsedData
            /\ "transactions" \in DOMAIN parsedData.object
            /\ "array" \in DOMAIN parsedData.object.transactions
         THEN Resolved(parsedData.object.transactions.array)
    ELSE Resolved(<<>>)

\* Lines 456-472: the rows of a response of one of the two shapes.
acceptedRows(parsedData) ==
    IF /\ "object" \in DOMAIN parsedData
       /\ "transactions" \in DOMAIN parsedData.object
       /\ "array" \in DOMAIN parsedData.object.transactions
    THEN Resolved(parsedData.object.transactions.array)
    ELSE IF "array" \in DOMAIN parsedData
    THEN Resolved(parsedData.array)
    ELSE Threw("AI response did not match any expected structure.")

\* Lines 480-484: the catch around the request and the parsing.
wrapAiError(message) == "Failed to process transactions with AI: " \o message

\* What generateContent may do: answer a text or throw.
AiText(text) == [text |-> text]
AiTransportError == [error |-> "transport"]
AiOutcomes == { AiText(text) : text \in ResponseTexts } \cup { AiTransportError }

\* The Prompts table as the SELECT of line 406 sees it: a default prompt, no
\* row, or a query that throws.
PromptStores == {"found", "none", "dbError"}

\* extractTransactionsWithAI (lines 398-486) as a function of the page text,
\* the prompt table and what the LLM does.
extractTransactionsWithAI(textContent, promptStore, aiOutcome) ==
    IF promptStore # "found"
    THEN Threw("Failed to retrieve extraction prompt.")
    ELSE IF textContent = ""
    THEN Resolved(<<>>)
    ELSE IF "error" \in DOMAIN aiOutcome
    THEN Threw(wrapAiError(aiOutcome.error))
    ELSE IF aiOutcome.text = ""
    THEN Threw(wrapAiError("AI returned an empty response."))
    ELSE LET parsed == JSONparse(stripFences(aiOutcome.text))
         IN IF ~parsed.ok
            THEN Threw(wrapAiError("Failed to parse AI response as JSON"))
            ELSE LET accepted == acceptedRows(parsed.value)
                 IN IF "error" \in DOMAIN accepted
                    THEN Threw(wrapAiError(accepted.error))
                    ELSE accepted

\* A row of the Prompts table.
Prompt(id, bank_identifier, is_default, is_active, version) ==
    [id |-> id, bank_identifier |-> bank_identifier, is_default |-> is_default,
     is_active |-> is_active, version |-> version]

defaultPrompt == Prompt(1, NULL, TRUE, TRUE, 1)
newerDefaultPrompt == Prompt(4, NULL, TRUE, TRUE, 2)
retiredDefaultPrompt == Prompt(1, NULL, TRUE, FALSE, 1)
iciciPrompt == Prompt(2, "ICICI", FALSE, TRUE, 1)
equitasPrompt == Prompt(3, "EQUITAS", FALSE, TRUE, 1)

\* Contents of the Prompts table: the seeded one, and tables with a prompt
\* missing, retired or in two versions.
PromptTables ==
    { {},
      {defaultPrompt},
      {defaultPrompt, iciciPrompt, equitasPrompt},
      {defaultPrompt, newerDefaultPrompt, iciciPrompt},
      {iciciPrompt},
      {retiredDefaultPrompt, iciciPrompt},
      {defaultPrompt, equitasPrompt} }

\* SELECT id, prompt_text FROM Prompts WHERE is_default = true AND
\* is_active = true ORDER BY version DESC LIMIT 1 (line 406): the rows it
\* returns. The bank identifier is no parameter of the query.
selectPrompt(bankIdentifier, prompts) ==
    { r \in prompts :
        /\ r.is_default /\ r.is_active
        /\ \A s \in prompts : (s.is_default /\ s.is_active) => s.version <= r.version }

\* What lines 403-423 leave the function with.
promptStoreOf(bankIdentifier, prompts, dbFails) ==
    IF dbFails THEN "dbError"
    ELSE IF selectPrompt(bankIdentifier, prompts) = {} THEN "none"
    ELSE "found"

\* The id of the prompt whose text generateContent is called with (line 432),
\* as <<id>>; <<>> when the function leaves before the call.
promptSent(textContent, bankIdentifier, prompts, dbFails) ==
    IF promptStoreOf(bankIdentifier, prompts, dbFails) # "found" \/ textContent = ""
    THEN <<>>
    ELSE <<(CHOOSE r \in selectPrompt(bankIdentifier, prompts) : TRUE).id>>

\* ---------------------------------------------- the normalizer's raw rows

MaxRawRows == 2

\* Issuer-shaped rows: both a debit and a credit candidate.
rawBothCandidates ==
    ("Date" :> Str("02/04/2024")) @@ ("Transaction Remarks" :> Str(" Salary "))
    @@ ("Debit" :> Str("100.00")) @@ ("Credit" :> Str("1,000.00"))
    @@ ("Balance" :> Str("1,000.00"))
\* A debit column that is the number 0 and a withdrawal column with the amount.
rawZeroDebit ==
    ("Value Date" :> Str("02/04/2024")) @@ ("Transaction details" :> Str("Salary"))
    @@ ("Debit" :> Num(0)) @@ ("Withdrawal (Dr)" :> Str("100.00"))
    @@ ("Deposit(Cr)" :> Str("0")) @@ ("Balance" :> Num(1000))
\* A negative amount with a type.
rawNegative ==
    [date |-> Str("02/04/2024"), description |-> Str("Salary"),
     amount |-> Num(-100), type |-> Str("debit"), running_balance |-> Num(1000)]
\* An amount written as text next to a type: no (amount, type) pair.
rawStringAmount ==
    [date |-> Str("02/04/2024"), description |-> Str("Salary"),
     amount |-> Str("100.00"), type |-> Str("credit"), running_balance |-> Num(1100)]
\* An opening balance row under issuer keys.
rawOpeningAliased ==
    ("Date" :> Str("01/04/2024")) @@ ("Transaction details" :> Str("Opening Balance b/f"))
    @@ ("Balance" :> Str("1,000.00"))
\* An empty higher-priority candidate next to a lower-priority one with a value.
rawEmptyDescription ==
    [date |-> Str("02/04/2024"), description |-> Str(""), Narration |-> Str("Salary"),
     amount |-> Num(100), type |-> Str("credit"), running_balance |-> Num(1100)]
rawEmptyBalance ==
    [date |-> Str("02/04/2024"), description |-> Str("Salary"),
     amount |-> Num(100), type |-> Str("credit"),
     running_balance |-> Str(""), Balance |-> Str("1,100.00")]
rawEmptyDate ==
    ("date" :> Str("")) @@ ("Value Date" :> Str("02/04/2024"))
    @@ ("description" :> Str("Salary")) @@ ("amount" :> Num(100))
    @@ ("type" :> Str("credit")) @@ ("running_balance" :> Num(1100))
\* Keys with a newline inside and spaces around.
rawDirtyKeys ==
    ("Transaction\nDate" :> Str("03/04/2024")) @@ ("Narration" :> Str("Salary"))
    @@ ("Credit" :> Str("100.00")) @@ (" Balance " :> Str("1,100.00"))
\* No date under any candidate key.
rawNoDate ==
    [description |-> Str("Salary"), amount |-> Num(100), type |-> Str("credit"),
     running_balance |-> Num(1100)]
\* A complete row that arrives with invalidStructure set.
rawInvalidFlagged ==
    [date |-> Str("02/04/2024"), description |-> Str("Salary"),
     amount |-> Num(100), type |-> Str("credit"), running_balance |-> Num(1100),
     invalidStructure |-> Bool(TRUE)]

RawRowDomain ==
    { rawOpening, rawSalary, rawAliased, rawNoBalance, rawTypeCorrected,
      rawBothCandidates, rawZeroDebit, rawNegative, rawStringAmount,
      rawOpeningAliased, rawEmptyDescription, rawEmptyBalance, rawEmptyDate,
      rawDirtyKeys, rawNoDate, rawInvalidFlagged }

\* ------------------ the extractor and the normalizer, each run on its inputs

NormalizerInit ==
    /\ ServiceIdle
    /\ NormalizerIdle
    /\ UploadIdle
    /\ transactions = <<>>
    /\ processedTransactions = <<>>
    /\ runs = 0

\* extractTransactionsWithAI is called once.
Extract(textContent, bankIdentifier, prompts, dbFails, aiOutcome) ==
    /\ extractCall = NotCalled
    /\ rawTransactions = <<>>
    /\ normalizerPc = "input"
    /\ extractCall' =
          [called |-> TRUE, textContent |-> textContent,
           bankIdentifier |-> bankIdentifier, prompts |-> prompts,
           promptStore |-> promptStoreOf(bankIdentifier, prompts, dbFails),
           promptId |-> promptSent(textContent, bankIdentifier, prompts, dbFails),
           aiOutcome |-> aiOutcome]
    /\ extractResult' =
          extractTransactionsWithAI(textContent,
                                    promptStoreOf(bankIdentifier, prompts, dbFails),
                                    aiOutcome)
    /\ UNCHANGED <<serviceVars, rawTransactions, normalizedTransactions, normalizerPc,
                   reconcilerVars, uploadVars>>

\* The caller builds the argument of normalizeTransactionData, one raw row at a
\* time.
ReceiveRaw(row) ==
    /\ extractCall = NotCalled
    /\ normalizerPc = "input"
    /\ Len(rawTransactions) < MaxRawRows
    /\ rawTransactions' = Append(rawTransactions, row)
    /\ UNCHANGED <<serviceVars, extractCall, extractResult, normalizedTransactions, normalizerPc,
                   reconcilerVars, uploadVars>>

\* normalizeTransactionData(rawTransactions)
Normalize ==
    /\ extractCall = NotCalled
    /\ normalizerPc = "input"
    /\ normalizedTransactions' = normalizeTransactionData(rawTransactions)
    /\ normalizerPc' = "output"
    /\ UNCHANGED <<serviceVars, extractCall, extractResult, rawTransactions,
                   reconcilerVars, uploadVars>>

\* validateTransactionBalances(normalizeTransactionData(rawTransactions)): the
\* reconciler is given the normalizer's output.
ValidateNormalized ==
    /\ extractCall = NotCalled
    /\ normalizerPc = "output"
    /\ transactions' = normalizedTransactions
    /\ processedTransactions' = validateTransactionBalances(normalizedTransactions)
    /\ normalizerPc' = "validated"
    /\ UNCHANGED <<serviceVars, extractCall, extractResult, rawTransactions,
                   normalizedTransactions, runs, uploadVars>>

NormalizerNext ==
    \/ \E textContent \in {"", "02/04/2024 Salary 100.00 1,100.00"},
          bankIdentifier \in {NULL, "ICICI"},
          prompts \in PromptTables,
          dbFails \in BOOLEAN,
          aiOutcome \in AiOutcomes :
            Extract(textContent, bankIdentifier, prompts, dbFails, aiOutcome)
    \/ \E row \in RawRowDomain : ReceiveRaw(row)
    \/ Normalize
    \/ ValidateNormalized

NormalizerSpec == NormalizerInit /\ [][NormalizerNext]_vars

\* ------------------------------------------------ reading a normalized list

Normalized == normalizerPc = "output"

\* The admission rule of the specification, read on the resolved fields: a
\* date, a description, a numeric running balance, and either an amount with a
\* type or the opening balance shape.
AdmittedByRule(n) ==
    /\ n.date # NULL /\ n.date # ""
    /\ n.description # NULL
    /\ n.running_balance # NaN
    /\ \/ n.amount # NaN /\ n.type \in {"credit", "debit"}
       \/ n.amount = <<0>> /\ n.type = NULL /\ isLikelyOpeningBalance(n.description)

\* C16: normalizeTransactionData returns, in input order, the normalized form
\* of exactly the raw rows for which a date, a description and a numeric
\* running balance are resolved and that have an (amount, type) pair or are
\* opening balance rows.
C16_AdmissionRule ==
    Normalized =>
        normalizedTransactions =
            SelectSeq([k \in 1..Len(rawTransactions) |-> normalizeRow(rawTransactions[k])],
                      AdmittedByRule)

\* C16 witness: of two raw rows one was dropped and the other, an opening
\* balance row, was admitted.
C16_Witness ==
    /\ Normalized
    /\ Len(rawTransactions) = 2
    /\ Len(normalizedTransactions) = 1
    /\ normalizedTransactions[1].type = NULL

HasAmountAndType(tx) ==
    /\ IsNumber(Get(tx, "amount"))
    /\ Get(tx, "type") \in {Str("credit"), Str("debit")}

\* The debit and credit candidates of a raw row, commas stripped.
DebitCandidate(tx) ==
    parseAmount(OrElse(Get(tx, "Debit"), OrElse(Get(tx, "Withdrawal (Dr)"), Str(""))))
CreditCandidate(tx) ==
    parseAmount(OrElse(Get(tx, "Credit"), OrElse(Get(tx, "Deposit(Cr)"), Str(""))))

Positive(number) == number # NaN /\ number[1] > 0

\* C17: the amount and type of a normalized row follow the priority: a numeric
\* amount with a type credit or debit is kept as |amount|; else a debit
\* candidate > 0 gives debit; else a credit candidate > 0 gives credit; else an
\* opening balance description gives 0 and null; else the amount stays null.
\* Every admitted row has an amount >= 0, and a null type only with amount 0
\* and an opening balance description.
C17_AmountTypePriority ==
    Normalized =>
        /\ \A k \in 1..Len(rawTransactions) :
            LET tx == rawTransactions[k]
                n == normalizeRow(tx)
            IN IF HasAmountAndType(tx)
               THEN n.amount = <<Abs(Get(tx, "amount").num)>> /\ n.type = Get(tx, "type").str
               ELSE IF Positive(DebitCandidate(tx))
               THEN n.amount = DebitCandidate(tx) /\ n.type = "debit"
               ELSE IF Positive(CreditCandidate(tx))
               THEN n.amount = CreditCandidate(tx) /\ n.type = "credit"
               ELSE IF isLikelyOpeningBalance(n.description)
               THEN n.amount = <<0>> /\ n.type = NULL
               ELSE n.amount = NaN /\ n.type = NULL
        /\ \A j \in 1..Len(normalizedTransactions) :
            LET n == normalizedTransactions[j]
            IN /\ n.amount # NaN
               /\ n.amount[1] >= 0
               /\ n.type \in {"credit", "debit", NULL}
               /\ n.type = NULL
                    => n.amount = <<0>> /\ isLikelyOpeningBalance(n.description)

\* C17 witness: a row with a debit and a credit candidate, both > 0, was
\* admitted as a debit, next to a row whose negative amount was made positive.
C17_Witness ==
    /\ Normalized
    /\ rawTransactions = <<rawBothCandidates, rawNegative>>
    /\ Len(normalizedTransactions) = 2
    /\ normalizedTransactions[1].type = "debit"
    /\ normalizedTransactions[1].amount = <<100000>>
    /\ normalizedTransactions[2].amount = <<100>>

\* A candidate value that is not empty: a number or a string with characters.
NonEmpty(v) == IsNumber(v) \/ IsNonEmptyString(v)

\* The value of the first key of the list whose value is not empty.
RECURSIVE FirstNonEmpty(_, _)
FirstNonEmpty(tx, keys) ==
    IF keys = <<>> THEN Undefined
    ELSE IF NonEmpty(Get(tx, Head(keys))) THEN Get(tx, Head(keys))
    ELSE FirstNonEmpty(tx, Tail(keys))

DateKeys == <<"date", "Transaction Date", "Value Date", "Date">>
DescriptionKeys == <<"description", "Transaction Remarks", "Narration", "Transaction details">>
BalanceKeys == <<"running_balance", "Balance">>

\* C18 (as stated): each of date, description and running_balance is resolved
\* from the first candidate key, in priority order, whose value is not empty.
C18_FirstNonEmptyWins ==
    Normalized =>
        \A k \in 1..Len(rawTransactions) :
            LET tx == rawTransactions[k]
                n == normalizeRow(tx)
                date == FirstNonEmpty(tx, DateKeys)
                description == FirstNonEmpty(tx, DescriptionKeys)
            IN /\ n.date = (IF IsString(date) THEN date.str ELSE NULL)
               /\ n.description =
                    (IF IsString(description) THEN cleanDescription(description.str) ELSE "")
               /\ n.running_balance = parseAmount(FirstNonEmpty(tx, BalanceKeys))

\* Key cleaning as the specification words it, on the keys of the model:
\* every run of white space becomes one space, and the key is trimmed.
cleanKey(key) ==
    CASE key = "Transaction\nDate" -> "Transaction Date"
      [] key = " Balance "         -> "Balance"
      [] OTHER                     -> key

\* The raw row with its keys cleaned.
withCleanKeys(tx) ==
    [key \in { cleanKey(j) : j \in DOMAIN tx } |->
        tx[CHOOSE j \in DOMAIN tx : cleanKey(j) = key]]

\* C19 (as stated): a raw row normalizes to what the row with its keys cleaned
\* normalizes to.
C19_KeysAreCleaned ==
    Normalized =>
        normalizedTransactions =
            normalizeTransactionData(
                [k \in 1..Len(rawTransactions) |-> withCleanKeys(rawTransactions[k])])

\* The LLM was asked and answered a text.
ExtractorAnswered ==
    /\ extractCall # NotCalled
    /\ extractCall.promptStore = "found"
    /\ extractCall.textContent # ""
    /\ "text" \in DOMAIN extractCall.aiOutcome

NearestValidBefore(rows, i) ==
    IF \E p \in 1..(i - 1) : isValidTransaction(rows[p])
    THEN CHOOSE p \in 1..(i - 1) :
            /\ isValidTransaction(rows[p])
            /\ \A q \in (p + 1)..(i - 1) : ~isValidTransaction(rows[q])
    ELSE 0

\* The rows the arithmetic check is made on: valid rows after the first valid
\* one, with a numeric amount and a credit or debit type.
CheckedRows ==
    { i \in RowsAfterFirstValid :
        /\ isValidTransaction(transactions[i])
        /\ HasArithmetic(transactions[i]) }

WithinOriginal(i) ==
    DifferenceWith(transactions[i].type, transactions,
                   NearestValidBefore(transactions, i), i) <= BALANCE_TOLERANCE

WithinFlipped(i) ==
    DifferenceWith(flippedTypeOf(transactions[i].type), transactions,
                   NearestValidBefore(transactions, i), i) <= BALANCE_TOLERANCE

\* C26: the reference of a checked row is the nearest earlier row that passes
\* the validity predicate: the row's balanceMismatch is decided by the balance
\* of that row, whatever flags that row itself received (balanceMismatch or
\* typeCorrected), and a row marked invalidStructure is never the reference.
C26_NearestValidIsReference ==
    Reconciled =>
        \A i \in CheckedRows :
            LET p == NearestValidBefore(transactions, i)
            IN /\ p # 0
               /\ ~processedTransactions[p].invalidStructure
               /\ \A q \in (p + 1)..(i - 1) : processedTransactions[q].invalidStructure
               /\ processedTransactions[i].balanceMismatch
                    = ~(WithinOriginal(i) \/ WithinFlipped(i))

\* A row accepted against a reference that is itself flagged balanceMismatch.
C26_Witness ==
    /\ Reconciled
    /\ \E i \in CheckedRows :
          /\ processedTransactions[NearestValidBefore(transactions, i)].balanceMismatch
          /\ ~processedTransactions[i].balanceMismatch
          /\ ~processedTransactions[i].invalidStructure

C28_Frame ==
    (runs = 1) =>
        /\ Len(processedTransactions) = Len(transactions)
        /\ \A i \in 1..Len(transactions) :
              /\ processedTransactions[i].date = transactions[i].date
              /\ processedTransactions[i].description = transactions[i].description
              /\ processedTransactions[i].amount = transactions[i].amount
              /\ processedTransactions[i].running_balance
                    = transactions[i].running_balance
              /\ processedTransactions[i].type # transactions[i].type =>
                    /\ processedTransactions[i].typeCorrected
                    /\ {transactions[i].type, processedTransactions[i].type}
                         = {"credit", "debit"}

\* A reconciled list of three rows one of which had its type repaired.
C28_Witness ==
    /\ runs = 1
    /\ Len(transactions) = MaxRows
    /\ \E i \in 1..Len(transactions) :
          processedTransactions[i].type # transactions[i].type

\* ------------------------------------ the normalizer feeding the reconciler

\* C29: every row normalizeTransactionData admits passes isValidTransaction; so
\* validateTransactionBalances applied to the normalizer's output sets
\* invalidStructure on no row, and the first valid row of a non-empty
\* normalized list is its first row.
C29_AdmittedRowsAreValid ==
    /\ normalizerPc \in {"output", "validated"} =>
          /\ \A k \in 1..Len(normalizedTransactions) :
                isValidTransaction(normalizedTransactions[k])
          /\ Len(normalizedTransactions) > 0 =>
                firstValidIndex(normalizedTransactions) = 1
    /\ normalizerPc = "validated" =>
          /\ Len(processedTransactions) = Len(normalizedTransactions)
          /\ \A k \in 1..Len(processedTransactions) :
                ~processedTransactions[k].invalidStructure

\* Two raw rows, an opening balance row without amount and a row that arrived
\* with invalidStructure set, were both admitted and reconciled.
C29_Witness ==
    /\ normalizerPc = "validated"
    /\ Len(processedTransactions) = MaxRawRows
    /\ \E k \in 1..Len(processedTransactions) : processedTransactions[k].type = NULL
    /\ \E k \in 1..Len(normalizedTransactions) :
          normalizedTransactions[k].invalidStructure

\* ------------------------------------------------------ the prompt resolved

\* The active prompts of an issuer tag, and the active default prompts.
ActivePromptsFor(bankIdentifier, prompts) ==
    { r \in prompts :
        r.is_active /\ bankIdentifier # NULL /\ r.bank_identifier = bankIdentifier }

ActiveDefaultPrompts(prompts) == { r \in prompts : r.is_active /\ r.is_default }

\* A call of the extractor on a page with text, the table being readable.
PromptResolved ==
    /\ extractCall # NotCalled
    /\ extractCall.textContent # ""
    /\ extractCall.promptStore # "dbError"

\* C21: when an active prompt exists for the identified issuer tag, that
\* prompt is the one sent to the LLM; only when none exists is the active
\* default prompt sent.
C21_IssuerPromptPreferred ==
    PromptResolved =>
        LET issuer == ActivePromptsFor(extractCall.bankIdentifier, extractCall.prompts)
            default == ActiveDefaultPrompts(extractCall.prompts)
        IN IF issuer # {}
           THEN extractCall.promptId \in { <<r.id>> : r \in issuer }
           ELSE IF default # {}
           THEN extractCall.promptId \in { <<r.id>> : r \in default }
           ELSE extractCall.promptId = <<>>

\* ------------------------------------------------- the upload without prompt

PromptError == "Failed to retrieve extraction prompt."

\* The upload called the extractor and every call failed for want of a prompt,
\* as it does on every page when the Prompts table holds no active default.
NoPromptConfigured ==
    /\ \E p \in 1..Len(pagesTextArray) : aiResults[p] # NotCalled
    /\ \A p \in 1..Len(pagesTextArray) :
          aiResults[p] # NotCalled => aiResults[p] = Threw(PromptError)

\* C22: when no active default prompt is configured the upload fails closed:
\* it is answered with a 5xx status, and the handler goes on neither to the
\* pattern fallback nor to storing a run nor to writing a CSV.
C22_MissingPromptFailsClosed ==
    NoPromptConfigured =>
        /\ patternResult = NotCalled
        /\ ProcessingResults = <<>>
        /\ csvExports = <<>>
        /\ pc = "done" => response.status \in 500..599

\* --------------------------------------------- compareResults on its inputs

MaxFeedbackRows == 2

\* A row of a feedback list: its fields in insertion order.
Field(key, value) == [key |-> key, value |-> value]

fbSalary == <<Field("date", Str("02/04/2024")), Field("amount", Num(100))>>
fbSalaryAsText == <<Field("date", Str("02/04/2024")), Field("amount", Str("100"))>>
fbNullAmount == <<Field("date", Str("02/04/2024")), Field("amount", Null)>>
fbEmptyAmount == <<Field("date", Str("02/04/2024")), Field("amount", Str(""))>>
fbOtherDate == <<Field("date", Str("03/04/2024")), Field("amount", Num(100))>>
fbWithDescription ==
    <<Field("date", Str("02/04/2024")), Field("amount", Num(100)),
      Field("description", Str("Salary"))>>

FeedbackRowDomain ==
    { fbSalary, fbSalaryAsText, fbNullAmount, fbEmptyAmount, fbOtherDate,
      fbWithDescription }

FeedbackLists ==
    UNION { [1..n -> FeedbackRowDomain] : n \in 0..MaxFeedbackRows }

\* Object.keys(row)
ObjectKeys(row) == [k \in 1..Len(row) |-> row[k].key]

\* row[header]
Member(row, header) ==
    IF \E k \in 1..Len(row) : row[k].key = header
    THEN (CHOOSE f \in { row[k] : k \in 1..Len(row) } : f.key = header).value
    ELSE Undefined

\* String(n) on the numbers of the model.
numberToString(n) ==
    CASE n = 0 -> "0"
      [] n = 100 -> "100"
      [] n = 1000 -> "1000"
      [] n = 1100 -> "1100"

\* String(v)
String(v) ==
    IF IsString(v) THEN v.str
    ELSE IF IsNumber(v) THEN numberToString(v.num)
    ELSE IF v = Null THEN "null"
    ELSE IF v = Undefined THEN "undefined"
    ELSE IF v.bool THEN "true" ELSE "false"

Max(a, b) == IF a >= b THEN a ELSE b
Min(a, b) == IF a <= b THEN a ELSE b

\* Line 59: the keys of the first initial row, or of the first corrected row
\* when there is no initial row.
headersOf(initial, corrected) ==
    IF Len(initial) > 0 THEN ObjectKeys(initial[1])
    ELSE IF Len(corrected) > 0 THEN ObjectKeys(corrected[1])
    ELSE <<>>

\* Lines 66-82: the cell changes of one pair of rows, in header order.
\* rowIndex is the 0-based index of the code.
RECURSIVE changesOfRow(_, _, _, _, _)
changesOfRow(initialRow, correctedRow, headers, rowIndex, h) ==
    IF h > Len(headers)
    THEN <<>>
    ELSE LET header == headers[h]
             initialValue == String(Coalesce(Member(initialRow, header), Str("")))
             correctedValue == String(Coalesce(Member(correctedRow, header), Str("")))
             rest == changesOfRow(initialRow, correctedRow, headers, rowIndex, h + 1)
         IN IF initialValue # correctedValue
            THEN <<[rowIndex |-> rowIndex, header |-> header,
                    oldValue |-> Coalesce(Member(initialRow, header), Null),
                    newValue |-> Coalesce(Member(correctedRow, header), Null)]>> \o rest
            ELSE rest

\* Lines 61-86: the cell changes of rows i..minRows (1-based).
RECURSIVE changesFrom(_, _, _, _, _)
changesFrom(initial, corrected, headers, minRows, i) ==
    IF i > minRows
    THEN <<>>
    ELSE changesOfRow(initial[i], corrected[i], headers, i - 1, 1)
         \o changesFrom(initial, corrected, headers, minRows, i + 1)

\* compareResults(initialData, correctedData), lines 44-91.
compareResults(initial, corrected) ==
    LET minRows == Min(Len(initial), Len(corrected))
        headers == headersOf(initial, corrected)
        cellChanges == changesFrom(initial, corrected, headers, minRows, 1)
        changed == { cellChanges[k].header : k \in 1..Len(cellChanges) }
    IN [rowsAdded |-> Max(0, Len(corrected) - Len(initial)),
        rowsDeleted |-> Max(0, Len(initial) - Len(corrected)),
        rowsModified |->
            Cardinality({ cellChanges[k].rowIndex : k \in 1..Len(cellChanges) }),
        cellChanges |-> cellChanges,
        fieldChangeCounts |->
            [f \in changed |->
                Cardinality({ k \in 1..Len(cellChanges) : cellChanges[k].header = f })]]

\* Neither validateTransactionBalances nor a caller of it is running.
ReconcilerIdle ==
    /\ transactions = <<>>
    /\ processedTransactions = <<>>
    /\ runs = 0

\* The two lists compareResults is given.
CompareInit ==
    /\ ReconcilerIdle
    /\ UploadIdle
    /\ NormalizerIdle
    /\ ConfirmIdle
    /\ DownloadIdle
    /\ initialData \in FeedbackLists
    /\ correctedData \in FeedbackLists
    /\ analysis = NotCalled

\* analysis = compareResults(initialData, correctedData)
Compare ==
    /\ analysis = NotCalled
    /\ analysis' = [called |-> TRUE] @@ compareResults(initialData, correctedData)
    /\ UNCHANGED <<reconcilerVars, uploadVars, normalizerVars,
                   confirmRequest, confirmResponse, FeedbackSubmissions,
                   initialData, correctedData,
                   exportsDir, downloadId, downloadResponse, fsAccessed>>

CompareNext == Compare

CompareSpec == CompareInit /\ [][CompareNext]_vars

\* The text a value is compared by: null and a missing field as the empty
\* string.
TextualForm(row, f) == String(Coalesce(Member(row, f), Str("")))

FieldsOf(row) == { row[k].key : k \in 1..Len(row) }

Compared == analysis # NotCalled

ChangesAt(i, f) ==
    { k \in 1..Len(analysis.cellChanges) :
        analysis.cellChanges[k].rowIndex = i /\ analysis.cellChanges[k].header = f }

\* C24: compareResults is a positional diff: rowsAdded and rowsDeleted are the
\* differences of the lengths; for each index below both lengths and each
\* field of either row there is a cell change with the two values exactly when
\* their textual forms differ (null as the empty string); rowsModified counts
\* the indices with a change and fieldChangeCounts the changes per field.
C24_PositionalDiff ==
    Compared =>
        LET minRows == Min(Len(initialData), Len(correctedData))
        IN /\ analysis.rowsAdded = Max(0, Len(correctedData) - Len(initialData))
           /\ analysis.rowsDeleted = Max(0, Len(initialData) - Len(correctedData))
           /\ \A i \in 1..minRows :
                \A f \in FieldsOf(initialData[i]) \cup FieldsOf(correctedData[i]) :
                    IF TextualForm(initialData[i], f) # TextualForm(correctedData[i], f)
                    THEN /\ Cardinality(ChangesAt(i - 1, f)) = 1
                         /\ \A k \in ChangesAt(i - 1, f) :
                              /\ analysis.cellChanges[k].oldValue
                                    = Coalesce(Member(initialData[i], f), Null)
                              /\ analysis.cellChanges[k].newValue
                                    = Coalesce(Member(correctedData[i], f), Null)
                    ELSE ChangesAt(i - 1, f) = {}
           /\ \A k \in 1..Len(analysis.cellChanges) :
                LET c == analysis.cellChanges[k]
                IN /\ c.rowIndex \in 0..(minRows - 1)
                   /\ c.header \in FieldsOf(initialData[c.rowIndex + 1])
                                   \cup FieldsOf(correctedData[c.rowIndex + 1])
           /\ analysis.rowsModified
                = Cardinality({ i \in 0..(minRows - 1) :
                      \E k \in 1..Len(analysis.cellChanges) :
                          analysis.cellChanges[k].rowIndex = i })
           /\ \A f \in DOMAIN analysis.fieldChangeCounts :
                analysis.fieldChangeCounts[f]
                    = Cardinality({ k \in 1..Len(analysis.cellChanges) :
                          analysis.cellChanges[k].header = f })
           /\ DOMAIN analysis.fieldChangeCounts
                = { analysis.cellChanges[k].header : k \in 1..Len(analysis.cellChanges) }

\* ------------------------------------------------ POST /api/confirm-accuracy

MaxStoredRuns == 2
MaxConfirmRequests == 2

IsBoolean(v) == DOMAIN v = {"bool"}

\* The id column read from the text of a parameter: <<id>>, or <<>> for a
\* text that is no id, on which the query fails (setupDb.js declares the
\* column UUID; the ids of the model are 1, 2, ...).
idFromText(s) ==
    CASE s = "1" -> <<1>>
      [] s = "2" -> <<2>>
      [] s = "3" -> <<3>>
      [] s = "4" -> <<4>>
      [] OTHER   -> <<>>

\* A query that sets the column on every run.
updateAccuracyEverywhere(table, id, isAccurate) ==
    [k \in 1..Len(table) |-> [table[k] EXCEPT !.user_confirmed_accuracy = <<isAccurate>>]]

\* UPDATE ProcessingResults SET user_confirmed_accuracy = $1 WHERE id = $2
\* (lines 428-433): the table after it.
updateAccuracy(table, id, isAccurate) ==
    [k \in 1..Len(table) |->
        IF table[k].id = id
        THEN [table[k] EXCEPT !.user_confirmed_accuracy = <<isAccurate>>]
        ELSE table[k]]

\* dbResult.rowCount
rowCount(table, id) == Cardinality({ k \in 1..Len(table) : table[k].id = id })

\* The response of the handler (lines 422-450).
confirmAnswer(table, id, isAccurate, dbDown) ==
    IF ~Truthy(id) \/ ~IsBoolean(isAccurate)
    THEN [status |-> 400, error |-> "Missing runId or invalid isAccurate flag."]
    ELSE IF dbDown \/ idFromText(id.str) = <<>>
    THEN [status |-> 500, error |-> "Failed to store accuracy confirmation."]
    ELSE IF rowCount(table, idFromText(id.str)[1]) = 0
    THEN [status |-> 404, error |-> "Processing run not found for runId: " \o id.str]
    ELSE [status |-> 200, message |-> "Accuracy confirmation received."]

ConfirmInit ==
    /\ ReconcilerIdle
    /\ UploadIdle
    /\ NormalizerIdle
    /\ ServiceIdle

\* An upload stored a run (server.js 278-295).
RunStored ==
    /\ Len(ProcessingResults) < MaxStoredRuns
    /\ ProcessingResults' =
            Append(ProcessingResults,
                   [id |-> Len(ProcessingResults) + 1,
                    initial_ai_result_json |-> <<rawSalary>>,
                    flags_raised_json |-> flagsRaised(<<rawSalary>>),
                    user_confirmed_accuracy |-> <<>>])
    /\ UNCHANGED <<reconcilerVars, normalizerVars, serviceVars,
                   pc, pagesTextArray, identifiedBank, pageIndex, allTransactions,
                   extractionMethod, runId, csvExports, response, uploadDeleted,
                   aiCalls, aiResults, patternResult>>

\* POST /api/confirm-accuracy with body {runId: id, isAccurate}; dbDown: the
\* database does not answer.
ConfirmAccuracy(id, isAccurate, dbDown) ==
    LET answer == confirmAnswer(ProcessingResults, id, isAccurate, dbDown)
    IN /\ Len(confirmRequest) < MaxConfirmRequests
       /\ confirmRequest' =
             Append(confirmRequest,
                    [runId |-> id, isAccurate |-> isAccurate, dbDown |-> dbDown])
       /\ confirmResponse' = Append(confirmResponse, answer)
       /\ ProcessingResults' =
             IF answer.status = 200
             THEN updateAccuracy(ProcessingResults, idFromText(id.str)[1],
                                 isAccurate.bool)
             ELSE ProcessingResults
       /\ UNCHANGED <<reconcilerVars, normalizerVars,
                      FeedbackSubmissions, initialData, correctedData, analysis,
                      exportsDir, downloadId, downloadResponse, fsAccessed,
                      pc, pagesTextArray, identifiedBank, pageIndex, allTransactions,
                      extractionMethod, runId, csvExports, response, uploadDeleted,
                      aiCalls, aiResults, patternResult>>

ConfirmNext ==
    \/ RunStored
    \/ \E id \in {Undefined, Str("1"), Str("2"), Str("not-a-run-id")},
          isAccurate \in {Bool(TRUE), Bool(FALSE), Str("true")},
          dbDown \in BOOLEAN :
            ConfirmAccuracy(id, isAccurate, dbDown)

ConfirmSpec == ConfirmInit /\ [][ConfirmNext]_vars

\* A request was answered in this step.
ConfirmStep == Len(confirmRequest') = Len(confirmRequest) + 1

\* A body with a runId and a boolean flag, the database answering.
WellFormedConfirm(req) ==
    /\ Truthy(req.runId)
    /\ IsBoolean(req.isAccurate)
    /\ ~req.dbDown

\* The runs of the table the runId of the request names.
RunsNamed(table, req) ==
    { k \in 1..Len(table) : idFromText(req.runId.str) = <<table[k].id>> }

\* The request changes nothing but user_confirmed_accuracy of the run it
\* names, and stores no feedback.
ConfirmFrame(req, before, after) ==
    /\ FeedbackSubmissions' = FeedbackSubmissions
    /\ Len(after) = Len(before)
    /\ \A k \in 1..Len(before) :
          /\ [after[k] EXCEPT !.user_confirmed_accuracy
                                = before[k].user_confirmed_accuracy] = before[k]
          /\ after[k] # before[k] =>
                WellFormedConfirm(req) /\ k \in RunsNamed(before, req)

\* A request for a stored run succeeds and sets the field.
ConfirmSucceeds(req, resp, before, after) ==
    (WellFormedConfirm(req) /\ RunsNamed(before, req) # {}) =>
        /\ resp.status = 200
        /\ \A k \in RunsNamed(before, req) :
              after[k].user_confirmed_accuracy = <<req.isAccurate.bool>>

\* The request of this step repeats the one before it, which succeeded: it
\* succeeds again and leaves the table as it was.
ConfirmRepeated(req, resp, before, after) ==
    (/\ confirmRequest # <<>>
     /\ WellFormedConfirm(req)
     /\ confirmRequest[Len(confirmRequest)].runId = req.runId
     /\ confirmRequest[Len(confirmRequest)].isAccurate = req.isAccurate
     /\ confirmResponse[Len(confirmResponse)].status = 200) =>
        /\ resp.status = 200
        /\ after = before

MaxIdPrefix == 2

\* A download id is its sequence of characters, as req.params holds it after
\* decoding (an encoded separator arrives as "/").
IdChars == {"a", ".", "/", " "}
dotCsv == <<".", "c", "s", "v">>
dotTxt == <<".", "t", "x", "t">>

DownloadIds ==
    { prefix \o suffix :
        prefix \in UNION { [1..n -> IdChars] : n \in 0..MaxIdPrefix },
        suffix \in {dotCsv, dotTxt, <<>>} } \ {<<>>}

\* s.includes(sub)
includes(s, sub) ==
    \E k \in 1..(Len(s) - Len(sub) + 1) : SubSeq(s, k, k + Len(sub) - 1) = sub

\* s.endsWith(suffix)
endsWith(s, suffix) ==
    /\ Len(s) >= Len(suffix)
    /\ SubSeq(s, Len(s) - Len(suffix) + 1, Len(s)) = suffix

\* Line 523: !downloadId || downloadId.includes('..') || !downloadId.endsWith('.csv')
isInvalidId(id) ==
    \/ id = <<>>
    \/ includes(id, <<".", ".">>)
    \/ ~endsWith(id, dotCsv)

\* The segments of a relative path: the texts between separators.
RECURSIVE splitPath(_)
splitPath(s) ==
    IF \E k \in 1..Len(s) : s[k] = "/"
    THEN LET k == CHOOSE j \in 1..Len(s) :
                    s[j] = "/" /\ \A i \in 1..(j - 1) : s[i] # "/"
         IN <<SubSeq(s, 1, k - 1)>> \o splitPath(SubSeq(s, k + 1, Len(s)))
    ELSE <<s>>

\* path.join normalizes: empty and "." segments vanish, ".." leaves the
\* directory reached so far. A path is the number of levels it climbs above
\* csvExportsDir and the segments below.
RECURSIVE normalizeFrom(_, _, _)
normalizeFrom(segments, k, path) ==
    IF k > Len(segments)
    THEN path
    ELSE LET seg == segments[k]
         IN IF seg = <<>> \/ seg = <<".">>
            THEN normalizeFrom(segments, k + 1, path)
            ELSE IF seg = <<".", ".">>
            THEN IF path.below = <<>>
                 THEN normalizeFrom(segments, k + 1, [path EXCEPT !.up = @ + 1])
                 ELSE normalizeFrom(segments, k + 1,
                        [path EXCEPT !.below = SubSeq(@, 1, Len(@) - 1)])
            ELSE normalizeFrom(segments, k + 1,
                               [path EXCEPT !.below = Append(@, seg)])

\* path.join(csvExportsDir, downloadId), line 528.
pathJoin(id) == normalizeFrom(splitPath(id), 1, [up |-> 0, below |-> <<>>])

\* Files that may lie readable in csvExportsDir.
ExportedFiles ==
    { pathJoin(<<"a">> \o dotCsv),
      pathJoin(<<"a", " ">> \o dotCsv),
      pathJoin(<<"a", "/">> \o dotCsv) }

\* What res.download may do with a readable file: send it, fail before the
\* headers went out, or fail after.
SendOutcomes ==
    { [sent |-> TRUE],
      [sent |-> FALSE, headersSent |-> FALSE, err |-> [message |-> "EISDIR"]],
      [sent |-> FALSE, headersSent |-> FALSE,
       err |-> [status |-> 404, message |-> "ENOENT"]],
      [sent |-> FALSE, headersSent |-> TRUE, err |-> [message |-> "EPIPE"]] }

\* The global error handler (lines 562-571).
globalErrorResponse(err) ==
    [status |-> IF "status" \in DOMAIN err THEN err.status ELSE 500,
     error |-> err.message]

DownloadInit ==
    /\ ReconcilerIdle
    /\ UploadIdle
    /\ NormalizerIdle
    /\ ConfirmIdle
    /\ CompareIdle
    /\ exportsDir \in SUBSET ExportedFiles
    /\ downloadId = <<>>
    /\ downloadResponse = NoResponse
    /\ fsAccessed = {}

\* Lines 523-526: the id is refused.
DownloadRefused(id) ==
    /\ downloadResponse = NoResponse
    /\ isInvalidId(id)
    /\ downloadId' = id
    /\ downloadResponse' = [status |-> 400, error |-> "Invalid download ID."]
    /\ UNCHANGED <<reconcilerVars, uploadVars, normalizerVars,
                   confirmRequest, confirmResponse, FeedbackSubmissions,
                   initialData, correctedData, analysis, exportsDir, fsAccessed>>

\* Lines 528-536: fs.access fails on the path.
DownloadNotFound(id) ==
    /\ downloadResponse = NoResponse
    /\ ~isInvalidId(id)
    /\ pathJoin(id) \notin exportsDir
    /\ downloadId' = id
    /\ fsAccessed' = {pathJoin(id)}
    /\ downloadResponse' = [status |-> 404, error |-> "File not found or has expired."]
    /\ UNCHANGED <<reconcilerVars, uploadVars, normalizerVars,
                   confirmRequest, confirmResponse, FeedbackSubmissions,
                   initialData, correctedData, analysis, exportsDir>>

\* Lines 538-557: the file is readable and res.download is called.
DownloadFile(id, outcome) ==
    /\ downloadResponse = NoResponse
    /\ ~isInvalidId(id)
    /\ pathJoin(id) \in exportsDir
    /\ downloadId' = id
    /\ fsAccessed' = {pathJoin(id)}
    /\ downloadResponse' =
          IF outcome.sent
          THEN [status |-> 200, file |-> pathJoin(id), complete |-> TRUE]
          ELSE IF outcome.headersSent
          THEN [status |-> 200, file |-> pathJoin(id), complete |-> FALSE]
          ELSE globalErrorResponse(outcome.err)
    /\ UNCHANGED <<reconcilerVars, uploadVars, normalizerVars,
                   confirmRequest, confirmResponse, FeedbackSubmissions,
                   initialData, correctedData, analysis, exportsDir>>

DownloadNext ==
    \/ \E id \in DownloadIds : DownloadRefused(id)
    \/ \E id \in DownloadIds : DownloadNotFound(id)
    \/ \E id \in DownloadIds, outcome \in SendOutcomes : DownloadFile(id, outcome)

DownloadSpec == DownloadInit /\ [][DownloadNext]_vars

\* ^[A-Za-z0-9_.\-]+\.csv$ on the characters of the model: no separator, no
\* blank, at least one character before the extension.
MatchesIdPattern(id) ==
    /\ endsWith(id, dotCsv)
    /\ Len(id) > Len(dotCsv)
    /\ \A k \in 1..Len(id) : id[k] \notin {"/", " "}

DownloadAnswered == downloadResponse # NoResponse

\* C25: a file is served only for an id that matches the pattern; an id that
\* does not match is refused before the file system is accessed, so no path
\* outside csvExportsDir is read; an id that matches and whose file is absent
\* or unreadable is answered 404.
C25_OnlyPatternIdsReachTheFileSystem ==
    DownloadAnswered =>
        /\ ~MatchesIdPattern(downloadId) =>
              /\ fsAccessed = {}
              /\ downloadResponse.status \in 400..499
        /\ \A path \in fsAccessed : path.up = 0
        /\ (MatchesIdPattern(downloadId) /\ pathJoin(downloadId) \notin exportsDir) =>
              downloadResponse.status = 404

\* ----------------------------------------------- one response per upload

\* C30: every upload receives exactly one response on every path of the
\* handler: once a response is sent no other is, and the handler is not over
\* before a response was sent, by itself or by the error handler the error
\* was forwarded to.
C30_ExactlyOneResponse ==
    [][/\ response # NoResponse => response' = response
       /\ pc' = "done" => response' # NoResponse]_vars

\* An upload that is over after its error was forwarded with next(error): the
\* route's error handler answered and the scratch file was deleted.
C30_Witness ==
    /\ pc = "done"
    /\ uploadDeleted
    /\ response = routeErrorResponse("Failed to generate CSV file.")
    /\ \E p \in 1..Len(pagesTextArray) : PageFailed(p)


====
